---- MODULE Spec2Model ----
(***************************************************************************)
(* Arena (bump-pointer region allocator) and ConcurrentArena (per-core     *)
(* shards in front of one Arena), modelled from arena.h / arena.cc /       *)
(* concurrent_arena.h / concurrent_arena.cc.                               *)
(*                                                                         *)
(* Addresses are natural numbers; NULL is 0.  A block is a record          *)
(* [base, size] standing for the bytes base .. base+size-1.                *)
(***************************************************************************)
EXTENDS Integers, Sequences, FiniteSets, TLC

(***************************************************************************)
(* Program constants                                                       *)
(***************************************************************************)
kInlineSize == 2048

kMinBlockSize == 4096

\* template parameter N of Arena<N>; alignof(std::max_align_t) on x86-64
kAlignUnit == 16

\* sizeof(void*)
kPtrSize == 8

NULL == 0

(***************************************************************************)
(* size_t values that may exceed the checker's 32-bit integers are kept    *)
(* as two digits in base 2^16: the value of [hi, lo] is hi * 65536 + lo.   *)
(***************************************************************************)
WBase == 2^16

WNum(hi, lo) == [hi |-> hi, lo |-> lo]

WFromInt(n) == WNum(n \div WBase, n % WBase)

WToInt(w) == w.hi * WBase + w.lo

WLess(a, b) == a.hi < b.hi \/ (a.hi = b.hi /\ a.lo < b.lo)

WMax(a, b) == IF WLess(a, b) THEN b ELSE a

WMin(a, b) == IF WLess(b, a) THEN b ELSE a

\* w % k and w / k for a small k (schoolbook division, high digit first)
WMod(w, k) == ((w.hi % k) * WBase + w.lo) % k

WDiv(w, k) == WNum(w.hi \div k, ((w.hi % k) * WBase + w.lo) \div k)

\* w * k for a small k (carry from the low digit into the high digit)
WMul(w, k) == WNum(w.hi * k + (w.lo * k) \div WBase, (w.lo * k) % WBase)

\* 1 + w
WInc(w) == IF w.lo = WBase - 1 THEN WNum(w.hi + 1, 0) ELSE WNum(w.hi, w.lo + 1)

\* kMaxBlockSize = 2u << 30 = 2^31 = 2^15 * 2^16
kMaxBlockSizeHi == 2^15

kMaxBlockSizeW == WNum(kMaxBlockSizeHi, 0)

kMinBlockSizeW == WFromInt(kMinBlockSize)

(***************************************************************************)
(* Arena::OptimizeBlockSize                                                *)
(***************************************************************************)
\* a slip that leaves out the clamp to kMaxBlockSize
OptimizeBlockSize_NoMaxClamp(block_size) ==
    LET b1 == WMax(kMinBlockSizeW, block_size)
    IN  IF WMod(b1, kAlignUnit) # 0
        THEN WMul(WInc(WDiv(b1, kAlignUnit)), kAlignUnit)
        ELSE b1

\* a slip that rounds up even when block_size is already a multiple
OptimizeBlockSize_AlwaysRound(block_size) ==
    LET b1 == WMax(kMinBlockSizeW, block_size)
        b2 == WMin(kMaxBlockSizeW, b1)
    IN  WMul(WInc(WDiv(b2, kAlignUnit)), kAlignUnit)

OptimizeBlockSize(block_size) ==
    LET b1 == WMax(kMinBlockSizeW, block_size)
        b2 == WMin(kMaxBlockSizeW, b1)
    IN  IF WMod(b2, kAlignUnit) # 0
        THEN WMul(WInc(WDiv(b2, kAlignUnit)), kAlignUnit)
        ELSE b2

(***************************************************************************)
(* Memory sources: operator new[] and mmap.  heap_top is the lowest        *)
(* address not yet handed out by the platform; every new buffer starts at  *)
(* a kAlignUnit-aligned address above it, separated from its predecessor.  *)
(***************************************************************************)
RoundUp(x, m) == ((x + m - 1) \div m) * m

\* address of Arena::inline_block_ (alignas(std::max_align_t))
InlineBase == 1024

FreshBase(top) == RoundUp(top, kAlignUnit) + kAlignUnit

Block(base, size) == [base |-> base, size |-> size]

(***************************************************************************)
(* AllocTracker: the object a non-null tracker_ points to.  addr is its    *)
(* address (NULL: there is no tracker), FreeMem_calls counts the calls of  *)
(* FreeMem it has received, Allocate_bytes adds up the byte counts the     *)
(* Arena has passed to Allocate.                                           *)
(***************************************************************************)
TrackerAddr == 1

NoTracker ==
    [ addr |-> NULL, write_buffer_manager_ |-> NULL, bytes_allocated_ |-> 0,
      done_allocating_ |-> FALSE, freed_ |-> FALSE, FreeMem_calls |-> 0,
      Allocate_bytes |-> 0 ]

\* AllocTracker::AllocTracker(write_buffer_manager)
AllocTracker(write_buffer_manager) ==
    [NoTracker EXCEPT !.addr = TrackerAddr,
                      !.write_buffer_manager_ = write_buffer_manager]

\* AllocTracker::is_freed
is_freed(tracker) == tracker.write_buffer_manager_ = NULL \/ tracker.freed_

\* AllocTracker::Allocate: the gross bytes committed are added up
TrackerAllocate(tracker, bytes) ==
    [tracker EXCEPT !.bytes_allocated_ = @ + bytes]

\* AllocTracker::FreeMem: the reservation is released, once
TrackerFreeMem(tracker) ==
    [tracker EXCEPT !.done_allocating_ = TRUE,
                    !.freed_ = (tracker.write_buffer_manager_ # NULL),
                    !.FreeMem_calls = @ + 1]

\* if (tracker_ != nullptr) tracker_->Allocate(bytes)
Track(tracker, bytes) ==
    IF tracker.addr # NULL
    THEN [TrackerAllocate(tracker, bytes) EXCEPT !.Allocate_bytes = @ + bytes]
    ELSE tracker

(***************************************************************************)
(* Arena: the object is a record whose fields carry the member names.      *)
(* Every operation is a function from the object (and its arguments) to    *)
(* [a |-> the object afterwards, rv |-> the returned pointer].             *)
(***************************************************************************)
\* a constructor that does not report the inline buffer to the tracker
Arena_InlineUnreported(block_size, tracker, huge_page_size) ==
    LET kBlockSize == WToInt(OptimizeBlockSize(WFromInt(block_size)))
    IN  [ kBlockSize             |-> kBlockSize,
          blocks_                |-> << >>,
          huge_blocks_           |-> << >>,
          irregular_block_num    |-> 0,
          alloc_bytes_remaining_ |-> kInlineSize,
          blocks_memory_         |-> kInlineSize,
          tracker_               |-> tracker,
          aligned_alloc_ptr_     |-> InlineBase,
          unaligned_alloc_ptr_   |-> InlineBase + kInlineSize,
          hugetlb_size_          |->
              IF huge_page_size # 0 /\ kBlockSize > huge_page_size
              THEN ((kBlockSize - 1) \div huge_page_size + 1) * huge_page_size
              ELSE huge_page_size,
          heap_top               |-> InlineBase + kInlineSize,
          mmap_failed            |-> 0 ]

Arena(block_size, tracker, huge_page_size) ==
    LET kBlockSize == WToInt(OptimizeBlockSize(WFromInt(block_size)))
    IN  [ kBlockSize             |-> kBlockSize,
          blocks_                |-> << >>,
          huge_blocks_           |-> << >>,
          irregular_block_num    |-> 0,
          alloc_bytes_remaining_ |-> kInlineSize,
          blocks_memory_         |-> kInlineSize,
          tracker_               |-> Track(tracker, kInlineSize),
          aligned_alloc_ptr_     |-> InlineBase,
          unaligned_alloc_ptr_   |-> InlineBase + kInlineSize,
          hugetlb_size_          |->
              IF huge_page_size # 0 /\ kBlockSize > huge_page_size
              THEN ((kBlockSize - 1) \div huge_page_size + 1) * huge_page_size
              ELSE huge_page_size,
          heap_top               |-> InlineBase + kInlineSize,
          mmap_failed            |-> 0 ]

MemoryAllocatedBytes(a) == a.blocks_memory_

AllocatedAndUnused(a) == a.alloc_bytes_remaining_

IrregularBlockNum(a) == a.irregular_block_num

\* a slip that tests only the heap blocks
IsInInlineBlock_BlocksOnly(a) == a.blocks_ = << >>

IsInInlineBlock(a) == a.blocks_ = << >> /\ a.huge_blocks_ = << >>

\* a slip that keeps only the newest block, releasing the ones before it
AllocateNewBlock_Replaces(a, block_bytes) ==
    LET block == FreshBase(a.heap_top)
    IN  [ a  |-> [a EXCEPT !.blocks_ = <<Block(block, block_bytes)>>,
                           !.blocks_memory_ = @ + block_bytes,
                           !.heap_top = block + block_bytes],
          rv |-> block ]

\* a slip that does not add the new block to blocks_memory_
AllocateNewBlock_Uncounted(a, block_bytes) ==
    LET block == FreshBase(a.heap_top)
    IN  [ a  |-> [a EXCEPT !.blocks_ = Append(@, Block(block, block_bytes)),
                           !.tracker_ = Track(@, block_bytes),
                           !.heap_top = block + block_bytes],
          rv |-> block ]

AllocateNewBlock(a, block_bytes) ==
    LET block == FreshBase(a.heap_top)
    IN  [ a  |-> [a EXCEPT !.blocks_ = Append(@, Block(block, block_bytes)),
                           !.blocks_memory_ = @ + block_bytes,
                           !.tracker_ = Track(@, block_bytes),
                           !.heap_top = block + block_bytes],
          rv |-> block ]

\* a slip that counts the bytes before it looks at the mapping's address
AllocateFromHugePage_CountsFailure(a, bytes, mapped) ==
    IF mapped
    THEN LET addr == FreshBase(a.heap_top)
         IN  [ a  |-> [a EXCEPT !.huge_blocks_ = Append(@, Block(addr, bytes)),
                                !.blocks_memory_ = @ + bytes,
                                !.tracker_ = Track(@, bytes),
                                !.heap_top = addr + bytes],
               rv |-> addr ]
    ELSE [ a  |-> [a EXCEPT !.mmap_failed = @ + 1,
                            !.blocks_memory_ = @ + bytes,
                            !.tracker_ = Track(@, bytes)],
           rv |-> NULL ]

\* mapped: whether mmap(MAP_HUGETLB) succeeds; mmap_failed counts the calls of
\* mmap that returned MAP_FAILED
AllocateFromHugePage(a, bytes, mapped) ==
    IF mapped
    THEN LET addr == FreshBase(a.heap_top)
         IN  [ a  |-> [a EXCEPT !.huge_blocks_ = Append(@, Block(addr, bytes)),
                                !.blocks_memory_ = @ + bytes,
                                !.tracker_ = Track(@, bytes),
                                !.heap_top = addr + bytes],
               rv |-> addr ]
    ELSE [a |-> [a EXCEPT !.mmap_failed = @ + 1], rv |-> NULL]

\* a slip that does not count the irregular block
AllocateFallback_NoCount(a, bytes, aligned, mapped) ==
    IF bytes > a.kBlockSize \div 4
    THEN AllocateNewBlock(a, bytes)
    ELSE LET nb   == AllocateNewBlock(a, a.kBlockSize)
             size == a.kBlockSize
             head == nb.rv
         IN  [ a  |-> [nb.a EXCEPT !.alloc_bytes_remaining_ = size - bytes,
                                   !.aligned_alloc_ptr_ =
                                       IF aligned THEN head + bytes ELSE head,
                                   !.unaligned_alloc_ptr_ =
                                       IF aligned THEN head + size
                                                  ELSE head + size - bytes],
               rv |-> IF aligned THEN head ELSE head + size - bytes ]

\* a slip that leaves both cursors at the ends of the new block
AllocateFallback_CursorAtHead(a, bytes, aligned, mapped) ==
    IF bytes > a.kBlockSize \div 4
    THEN AllocateNewBlock([a EXCEPT !.irregular_block_num = @ + 1], bytes)
    ELSE LET nb   == AllocateNewBlock(a, a.kBlockSize)
             size == a.kBlockSize
             head == nb.rv
         IN  [ a  |-> [nb.a EXCEPT !.alloc_bytes_remaining_ = size - bytes,
                                   !.aligned_alloc_ptr_ = head,
                                   !.unaligned_alloc_ptr_ = head + size],
               rv |-> IF aligned THEN head ELSE head + size - bytes ]

\* a slip that makes an irregular block the active region
AllocateFallback_MovesCursors(a, bytes, aligned, mapped) ==
    IF bytes > a.kBlockSize \div 4
    THEN LET ib == AllocateNewBlock([a EXCEPT !.irregular_block_num = @ + 1], bytes)
         IN  [ a  |-> [ib.a EXCEPT !.alloc_bytes_remaining_ = 0,
                                   !.aligned_alloc_ptr_ = ib.rv + bytes,
                                   !.unaligned_alloc_ptr_ = ib.rv + bytes],
               rv |-> ib.rv ]
    ELSE LET hp   == IF a.hugetlb_size_ > 0
                     THEN AllocateFromHugePage(a, a.hugetlb_size_, mapped)
                     ELSE [a |-> a, rv |-> NULL]
             nb   == IF hp.rv = NULL
                     THEN AllocateNewBlock(hp.a, a.kBlockSize)
                     ELSE hp
             size == IF hp.rv = NULL THEN a.kBlockSize ELSE a.hugetlb_size_
             head == nb.rv
         IN  IF aligned
             THEN [ a  |-> [nb.a EXCEPT !.alloc_bytes_remaining_ = size - bytes,
                                        !.aligned_alloc_ptr_ = head + bytes,
                                        !.unaligned_alloc_ptr_ = head + size],
                    rv |-> head ]
             ELSE [ a  |-> [nb.a EXCEPT !.alloc_bytes_remaining_ = size - bytes,
                                        !.aligned_alloc_ptr_ = head,
                                        !.unaligned_alloc_ptr_ = head + size - bytes],
                    rv |-> head + size - bytes ]

AllocateFallback(a, bytes, aligned, mapped) ==
    IF bytes > a.kBlockSize \div 4
    THEN AllocateNewBlock([a EXCEPT !.irregular_block_num = @ + 1], bytes)
    ELSE LET hp   == IF a.hugetlb_size_ > 0
                     THEN AllocateFromHugePage(a, a.hugetlb_size_, mapped)
                     ELSE [a |-> a, rv |-> NULL]
             nb   == IF hp.rv = NULL
                     THEN AllocateNewBlock(hp.a, a.kBlockSize)
                     ELSE hp
             size == IF hp.rv = NULL THEN a.kBlockSize ELSE a.hugetlb_size_
             head == nb.rv
         IN  IF aligned
             THEN [ a  |-> [nb.a EXCEPT !.alloc_bytes_remaining_ = size - bytes,
                                        !.aligned_alloc_ptr_ = head + bytes,
                                        !.unaligned_alloc_ptr_ = head + size],
                    rv |-> head ]
             ELSE [ a  |-> [nb.a EXCEPT !.alloc_bytes_remaining_ = size - bytes,
                                        !.aligned_alloc_ptr_ = head,
                                        !.unaligned_alloc_ptr_ = head + size - bytes],
                    rv |-> head + size - bytes ]

\* a slip that moves the cursor but keeps the remaining count
Allocate_KeepsCount(a, bytes, mapped) ==
    IF bytes < a.alloc_bytes_remaining_
    THEN [ a  |-> [a EXCEPT !.unaligned_alloc_ptr_ = @ - bytes],
           rv |-> a.unaligned_alloc_ptr_ - bytes ]
    ELSE AllocateFallback(a, bytes, FALSE, mapped)

Allocate(a, bytes, mapped) ==
    IF bytes < a.alloc_bytes_remaining_
    THEN [ a  |-> [a EXCEPT !.unaligned_alloc_ptr_ = @ - bytes,
                            !.alloc_bytes_remaining_ = @ - bytes],
           rv |-> a.unaligned_alloc_ptr_ - bytes ]
    ELSE AllocateFallback(a, bytes, FALSE, mapped)

\* a slip that reserves the slop but returns the unpadded cursor
AllocateAligned_NoSlop(a, bytes, huge_page_size, mapped1, mapped2) ==
    LET current_mod == a.aligned_alloc_ptr_ % kAlignUnit
        slop   == IF current_mod = 0 THEN 0 ELSE kAlignUnit - current_mod
        needed == bytes + slop
    IN  IF needed <= a.alloc_bytes_remaining_
        THEN [ a  |-> [a EXCEPT !.aligned_alloc_ptr_ = @ + needed,
                                !.alloc_bytes_remaining_ = @ - needed],
               rv |-> a.aligned_alloc_ptr_ ]
        ELSE AllocateFallback(a, bytes, TRUE, mapped2)

\* a slip that takes only bytes, not the padding, off the remaining count
AllocateAligned_SlopUncharged(a, bytes, huge_page_size, mapped1, mapped2) ==
    LET current_mod == a.aligned_alloc_ptr_ % kAlignUnit
        slop   == IF current_mod = 0 THEN 0 ELSE kAlignUnit - current_mod
        needed == bytes + slop
    IN  IF needed <= a.alloc_bytes_remaining_
        THEN [ a  |-> [a EXCEPT !.aligned_alloc_ptr_ = @ + needed,
                                !.alloc_bytes_remaining_ = @ - bytes],
               rv |-> a.aligned_alloc_ptr_ + slop ]
        ELSE AllocateFallback(a, bytes, TRUE, mapped2)

\* mapped1: outcome of the mapping attempted for the huge-page hint;
\* mapped2: outcome of the mapping attempted by the fallback path
AllocateAligned(a, bytes, huge_page_size, mapped1, mapped2) ==
    LET hinted == a.hugetlb_size_ > 0 /\ huge_page_size > 0
        reserved_size == IF hinted
                         THEN ((bytes - 1) \div huge_page_size + 1) * huge_page_size
                         ELSE 0
        hp == IF hinted
              THEN AllocateFromHugePage(a, reserved_size, mapped1)
              ELSE [a |-> a, rv |-> NULL]
        current_mod == a.aligned_alloc_ptr_ % kAlignUnit
        slop   == IF current_mod = 0 THEN 0 ELSE kAlignUnit - current_mod
        needed == bytes + slop
    IN  IF hp.rv # NULL
        THEN hp
        ELSE IF needed <= a.alloc_bytes_remaining_
             THEN [ a  |-> [hp.a EXCEPT !.aligned_alloc_ptr_ = @ + needed,
                                        !.alloc_bytes_remaining_ = @ - needed],
                    rv |-> a.aligned_alloc_ptr_ + slop ]
             ELSE AllocateFallback(hp.a, bytes, TRUE, mapped2)

(***************************************************************************)
(* State                                                                   *)
(***************************************************************************)
VARIABLES
    arena,      \* the Arena object (for ConcurrentArena: its member arena_)
    returned,   \* every region handed to a caller so far, in order
    last,       \* the most recent completed call and the Arena before it
    obs,        \* OptimizeBlockSize applied to an input, then to its own result
    shard_block_size_,            \* ConcurrentArena members
    shards_,
    arena_mutex_,
    arena_allocated_and_unused_,
    memory_allocated_bytes_,
    irregular_block_num_,
    teardown,   \* how far ~Arena has come and what it has released
    spin,       \* SpinLocks on their own: the flags and each caller's position
    twin,       \* plain Arenas fed the calls a ConcurrentArena has answered
    tls_cpuid,  \* thread_local tls_cpuid, one per thread
    thr         \* each thread's position in AllocateImpl and its locals

caVars == <<shard_block_size_, shards_, arena_mutex_, arena_allocated_and_unused_,
            memory_allocated_bytes_, irregular_block_num_, tls_cpuid, thr>>

vars == <<arena, returned, last, obs, teardown, spin, twin, caVars>>

(***************************************************************************)
(* Bounds and inputs                                                       *)
(***************************************************************************)
MaxCalls == 3

\* constructor arguments
BlockSizes == {100, 5000}

HugePageSizes == {0, 3000}

\* request sizes: below and above a quarter block, at and above the inline
\* buffer size, and a whole block
Sizes == {1, 8, 1000, 1025, 2048, 4096}

NoCall == [op |-> "none", bytes |-> 0, huge_page_size |-> 0, rv |-> NULL]

\* a returned region: n bytes at p, served by path: "arena" (Arena call),
\* "bypass" (inline bypass), "shard"
Region(p, n, aligned, path) ==
    [p |-> p, n |-> n, aligned |-> aligned, path |-> path]

\* no SpinLock is under study on its own
NoSpin == [locked_ |-> << >>, caller |-> << >>]

\* the Arena before its destructor runs
Alive == [pc |-> "alive", released |-> << >>]

\* no ConcurrentArena under study, so no plain Arena beside it
NoTwin == [arena_ |-> NULL, try_lock_failed |-> FALSE]

ObsIdle == [pc |-> "idle", x |-> WNum(0, 0), r1 |-> WNum(0, 0), r2 |-> WNum(0, 0)]

NumThreads == 2

Threads == 1 .. NumThreads

\* CoreLocalArray<Shard>::Size(): 1 << size_shift_, size_shift_ >= 3
NumShards == 8

ShardIds == 0 .. (NumShards - 1)

\* shard indexes the core-index provider may report to a thread
CoreIdxs == {0, 1}

kMaxShardBlockSize == 128 * 1024

\* SpinLock: locked_ is the atomic flag; owner names the thread whose
\* try_lock/lock set it (0 when free)
FreeLock == [locked_ |-> FALSE, owner |-> 0]

HeldBy(t) == [locked_ |-> TRUE, owner |-> t]

\* a Shard: std::atomic<size_t> value-initialised, free_begin_ not yet set
EmptyShard == [mutex |-> FreeLock, free_begin_ |-> NULL, allocated_and_unused_ |-> 0]

IdleThread ==
    [ pc |-> "idle", op |-> "none", req |-> 0, bytes |-> 0, huge_page_size |-> 0,
      force_arena |-> FALSE, cpu |-> 0, s |-> 0, avail |-> 0, rv |-> NULL ]

\* the ConcurrentArena members while no ConcurrentArena is under study
NoConcurrentArena ==
    /\ shard_block_size_ = 0
    /\ shards_ = [i \in ShardIds |-> EmptyShard]
    /\ arena_mutex_ = FreeLock
    /\ arena_allocated_and_unused_ = 0
    /\ memory_allocated_bytes_ = 0
    /\ irregular_block_num_ = 0
    /\ tls_cpuid = [t \in Threads |-> 0]
    /\ thr = [t \in Threads |-> IdleThread]

(***************************************************************************)
(* Plain Arena: one caller, one call per step                              *)
(***************************************************************************)
Init ==
    /\ \E block_size \in BlockSizes, huge_page_size \in HugePageSizes :
           arena = Arena(block_size, NoTracker, huge_page_size)
    /\ returned = << >>
    /\ last = [NoCall EXCEPT !.op = "ctor"] @@ [pre |-> NULL]
    /\ obs = ObsIdle
    /\ teardown = Alive
    /\ spin = NoSpin
    /\ twin = NoTwin
    /\ NoConcurrentArena

\* one call of Allocate with bytes drawn from sizes
AllocateCall(sizes) ==
    /\ teardown.pc = "alive"
    /\ Len(returned) < MaxCalls
    /\ \E bytes \in sizes, mapped \in BOOLEAN :
           LET r == Allocate(arena, bytes, mapped)
           IN  /\ arena' = r.a
               /\ returned' = Append(returned, Region(r.rv, bytes, FALSE, "arena"))
               /\ last' = [op |-> "Allocate", bytes |-> bytes,
                           huge_page_size |-> 0, rv |-> r.rv, pre |-> arena]
    /\ UNCHANGED <<obs, teardown, spin, twin, caVars>>

\* one call of AllocateAligned with bytes drawn from sizes
AllocateAlignedCall(sizes) ==
    /\ teardown.pc = "alive"
    /\ Len(returned) < MaxCalls
    /\ \E bytes \in sizes, huge_page_size \in HugePageSizes,
          mapped1 \in BOOLEAN, mapped2 \in BOOLEAN :
           LET r == AllocateAligned(arena, bytes, huge_page_size, mapped1, mapped2)
           IN  /\ arena' = r.a
               /\ returned' = Append(returned, Region(r.rv, bytes, TRUE, "arena"))
               /\ last' = [op |-> "AllocateAligned", bytes |-> bytes,
                           huge_page_size |-> huge_page_size, rv |-> r.rv,
                           pre |-> arena]
    /\ UNCHANGED <<obs, teardown, spin, twin, caVars>>

CallAllocate == AllocateCall(Sizes)

CallAllocateAligned == AllocateAlignedCall(Sizes)

Next == CallAllocate \/ CallAllocateAligned

Spec == Init /\ [][Next]_vars

(***************************************************************************)
(* OptimizeBlockSize as a pure function: the input is drawn from windows   *)
(* around 0, kMinBlockSize, kMaxBlockSize and a value far above it.        *)
(***************************************************************************)
ObsWindow == 20

ObsInputs ==
    {WFromInt(n) : n \in 0 .. ObsWindow}
      \cup {WFromInt(n) : n \in (kMinBlockSize - ObsWindow) .. (kMinBlockSize + 2 * ObsWindow)}
      \cup {WNum(kMaxBlockSizeHi - 1, lo) : lo \in (WBase - 2 * ObsWindow) .. (WBase - 1)}
      \cup {WNum(kMaxBlockSizeHi, lo) : lo \in 0 .. ObsWindow}
      \cup {WNum(2 * kMaxBlockSizeHi, lo) : lo \in 0 .. ObsWindow}

InitOptimize ==
    /\ arena = Arena(kMinBlockSize, NoTracker, 0)
    /\ returned = << >>
    /\ last = [NoCall EXCEPT !.op = "ctor"] @@ [pre |-> NULL]
    /\ \E x \in ObsInputs : obs = [ObsIdle EXCEPT !.x = x]
    /\ teardown = Alive
    /\ spin = NoSpin
    /\ twin = NoTwin
    /\ NoConcurrentArena

ApplyOptimize ==
    /\ obs.pc = "idle"
    /\ obs' = [obs EXCEPT !.pc = "once", !.r1 = OptimizeBlockSize(obs.x)]
    /\ UNCHANGED <<arena, returned, last, teardown, spin, twin, caVars>>

ReapplyOptimize ==
    /\ obs.pc = "once"
    /\ obs' = [obs EXCEPT !.pc = "twice", !.r2 = OptimizeBlockSize(obs.r1)]
    /\ UNCHANGED <<arena, returned, last, teardown, spin, twin, caVars>>

NextOptimize == ApplyOptimize \/ ReapplyOptimize

SpecOptimize == InitOptimize /\ [][NextOptimize]_vars

(***************************************************************************)
(* Lifetime of an Arena with a tracker: construction, calls, the owner's   *)
(* FreeMem on the tracker, destruction.                                    *)
(***************************************************************************)
WbmAddr == 2

\* the tracker argument of the constructor: none, a tracker without a
\* WriteBufferManager, a tracker of a WriteBufferManager
Trackers == {NoTracker, AllocTracker(NULL), AllocTracker(WbmAddr)}

\* request sizes: small, just above a quarter block, the inline buffer's size
LifetimeSizes == {8, 1025, 2048}

InitLifetime ==
    /\ \E huge_page_size \in HugePageSizes, tracker \in Trackers :
           arena = Arena(kMinBlockSize, tracker, huge_page_size)
    /\ returned = << >>
    /\ last = [NoCall EXCEPT !.op = "ctor"] @@ [pre |-> NULL]
    /\ obs = ObsIdle
    /\ teardown = Alive
    /\ spin = NoSpin
    /\ twin = NoTwin
    /\ NoConcurrentArena

\* the owner of the tracker calls FreeMem on it while the Arena is alive
OwnerFreeMem ==
    /\ teardown.pc = "alive"
    /\ arena.tracker_.addr # NULL
    /\ arena.tracker_.FreeMem_calls = 0
    /\ arena' = [arena EXCEPT !.tracker_ = TrackerFreeMem(@)]
    /\ last' = [op |-> "FreeMem", bytes |-> 0, huge_page_size |-> 0,
                rv |-> NULL, pre |-> arena]
    /\ UNCHANGED <<returned, obs, teardown, spin, twin, caVars>>

\* ~Arena followed by the destructors of the members: every MemMapping of
\* huge_blocks_ is unmapped and every array of blocks_ deleted.  ndebug: the
\* build leaves assertions out.
Destructor(a, ndebug) ==
    IF a.tracker_.addr # NULL /\ ~ndebug /\ ~is_freed(a.tracker_)
    THEN [ a |-> a, teardown |-> [pc |-> "assert_failed", released |-> << >>] ]
    ELSE [ a        |-> [a EXCEPT !.tracker_ =
                            IF a.tracker_.addr # NULL
                            THEN TrackerFreeMem(@) ELSE @],
           teardown |-> [pc |-> "destroyed",
                         released |-> a.huge_blocks_ \o a.blocks_] ]

Destroy ==
    /\ teardown.pc = "alive"
    /\ \E ndebug \in BOOLEAN :
           LET r == Destructor(arena, ndebug)
           IN  /\ arena' = r.a
               /\ teardown' = r.teardown
    /\ last' = [op |-> "~Arena", bytes |-> 0, huge_page_size |-> 0,
                rv |-> NULL, pre |-> arena]
    /\ UNCHANGED <<returned, obs, spin, twin, caVars>>

LifetimeAllocate == AllocateCall(LifetimeSizes)

LifetimeAllocateAligned == AllocateAlignedCall(LifetimeSizes)

NextLifetime ==
    LifetimeAllocate \/ LifetimeAllocateAligned \/ OwnerFreeMem \/ Destroy

SpecLifetime == InitLifetime /\ [][NextLifetime]_vars

(***************************************************************************)
(* SpinLock on its own: threads call try_lock, lock and unlock on the      *)
(* locks of SpinLocks.  try_lock is two steps, the relaxed load and the    *)
(* compare_exchange_weak; lock is try_lock until it succeeds.  held is the *)
(* set of locks whose try_lock or lock has returned true to the thread and *)
(* which it has not unlocked since.                                        *)
(***************************************************************************)
SpinLocks == {"arena_mutex_", "mutex"}

IdleCaller ==
    [ pc |-> "idle", call |-> "none", lock |-> "none", currently_locked |-> FALSE,
      rv |-> FALSE, held |-> {} ]

InitSpin ==
    /\ arena = Arena(kMinBlockSize, NoTracker, 0)
    /\ returned = << >>
    /\ last = [NoCall EXCEPT !.op = "ctor"] @@ [pre |-> NULL]
    /\ obs = ObsIdle
    /\ teardown = Alive
    /\ spin = [ locked_ |-> [l \in SpinLocks |-> FALSE],
                caller  |-> [t \in Threads |-> IdleCaller] ]
    /\ twin = NoTwin
    /\ NoConcurrentArena

\* what a caller does when try_lock has come out as ok: try_lock returns it,
\* lock returns on true and tries again on false
AfterTry(c, ok) ==
    IF ok
    THEN [c EXCEPT !.pc = "idle", !.rv = TRUE, !.held = @ \cup {c.lock}]
    ELSE IF c.call = "try_lock"
         THEN [c EXCEPT !.pc = "idle", !.rv = FALSE]
         ELSE [c EXCEPT !.pc = "load"]

\* a thread calls try_lock() or lock() on a lock it does not hold
SpinCall(t) ==
    /\ spin.caller[t].pc = "idle"
    /\ \E l \in SpinLocks \ spin.caller[t].held, call \in {"try_lock", "lock"} :
           spin' = [spin EXCEPT !.caller[t] =
                       [@ EXCEPT !.pc = "load", !.call = call, !.lock = l]]
    /\ UNCHANGED <<arena, returned, last, obs, teardown, twin, caVars>>

\* auto currently_locked = locked_.load(relaxed); return !currently_locked && ...
SpinLoad(t) ==
    /\ spin.caller[t].pc = "load"
    /\ LET c == [spin.caller[t] EXCEPT
                    !.currently_locked = spin.locked_[spin.caller[t].lock]]
       IN  spin' = [spin EXCEPT !.caller[t] =
                       IF c.currently_locked
                       THEN AfterTry(c, FALSE)
                       ELSE [c EXCEPT !.pc = "cas"]]
    /\ UNCHANGED <<arena, returned, last, obs, teardown, twin, caVars>>

\* a slip that stores true instead of exchanging
CompareExchangeWeak_Store(locked, expected) ==
    {[ok |-> TRUE, locked_ |-> TRUE, expected |-> expected]}

\* locked_.compare_exchange_weak(expected, true): may fail although the value
\* is the expected one; a failure writes the value read into expected
CompareExchangeWeak(locked, expected) ==
    IF locked = expected
    THEN { [ok |-> TRUE, locked_ |-> TRUE, expected |-> expected],
           [ok |-> FALSE, locked_ |-> locked, expected |-> locked] }
    ELSE { [ok |-> FALSE, locked_ |-> locked, expected |-> locked] }

SpinCas(t) ==
    /\ spin.caller[t].pc = "cas"
    /\ LET c == spin.caller[t]
       IN  \E r \in CompareExchangeWeak(spin.locked_[c.lock], c.currently_locked) :
               spin' = [spin EXCEPT
                           !.locked_[c.lock] = r.locked_,
                           !.caller[t] =
                               AfterTry([c EXCEPT !.currently_locked = r.expected],
                                        r.ok)]
    /\ UNCHANGED <<arena, returned, last, obs, teardown, twin, caVars>>

\* unlock() by a thread that holds the lock: locked_.store(false, release)
SpinUnlock(t) ==
    /\ spin.caller[t].pc = "idle"
    /\ \E l \in spin.caller[t].held :
           spin' = [spin EXCEPT !.locked_[l] = FALSE,
                                !.caller[t].held = @ \ {l},
                                !.caller[t].call = "unlock",
                                !.caller[t].lock = l]
    /\ UNCHANGED <<arena, returned, last, obs, teardown, twin, caVars>>

NextSpin ==
    \E t \in Threads : SpinCall(t) \/ SpinLoad(t) \/ SpinCas(t) \/ SpinUnlock(t)

SpecSpin == InitSpin /\ [][NextSpin]_vars

(***************************************************************************)
(* ConcurrentArena: NumThreads threads call Allocate / AllocateAligned.    *)
(* Each action is one step of AllocateImpl for one thread, with at most    *)
(* one access to state another thread can touch without the lock held.     *)
(***************************************************************************)
\* a shard block as large as the Arena's block
ShardBlockSize_Undivided(block_size) ==
    IF kMaxShardBlockSize < block_size
    THEN kMaxShardBlockSize
    ELSE block_size

\* shard_block_size_(std::min(kMaxShardBlockSize, block_size / 8))
ShardBlockSize(block_size) ==
    IF kMaxShardBlockSize < block_size \div 8
    THEN kMaxShardBlockSize
    ELSE block_size \div 8

\* ((bytes - 1) | (sizeof(void*) - 1)) + 1
RoundedUp(bytes) == ((bytes - 1) \div kPtrSize) * kPtrSize + kPtrSize

\* SpinLock::try_lock: fails when the flag is set; compare_exchange_weak may
\* also fail when it is clear
TryLock(m, t) ==
    IF m.locked_
    THEN {[ok |-> FALSE, m |-> m]}
    ELSE {[ok |-> TRUE, m |-> HeldBy(t)], [ok |-> FALSE, m |-> m]}

\* a slip that leaves the flag set
Unlock_Keeps(m) == m

\* SpinLock::unlock
Unlock(m) == FreeLock

\* the same request made of a plain Arena a: Allocate(bytes) or
\* AllocateAligned(bytes, huge_page_size) with the size the caller asked for
PlainCall(c, a, mapped1, mapped2) ==
    IF c.op = "Allocate"
    THEN Allocate(a, c.req, mapped2)
    ELSE AllocateAligned(a, c.req, c.huge_page_size, mapped1, mapped2)

\* the func() callback of AllocateImpl
Func(c, a, mapped1, mapped2) ==
    IF c.op = "Allocate"
    THEN Allocate(a, c.bytes, mapped2)
    ELSE AllocateAligned(a, c.bytes, c.huge_page_size, mapped1, mapped2)

\* a Fixup that leaves the cached free-byte count as it was
Fixup_SkipsUnused(a) ==
    /\ UNCHANGED arena_allocated_and_unused_
    /\ memory_allocated_bytes_' = MemoryAllocatedBytes(a)
    /\ irregular_block_num_' = IrregularBlockNum(a)

\* ConcurrentArena::Fixup, reading the Arena a; every caller holds arena_mutex_
\* from before the Arena call it follows until after it
Fixup(a) ==
    /\ arena_allocated_and_unused_' = AllocatedAndUnused(a)
    /\ memory_allocated_bytes_' = MemoryAllocatedBytes(a)
    /\ irregular_block_num_' = IrregularBlockNum(a)

\* the refill size chosen when the Arena has `exact` bytes free
RefillSize(exact) ==
    IF exact >= shard_block_size_ \div 2 /\ exact < shard_block_size_ * 2
    THEN exact
    ELSE shard_block_size_

\* a carve whose word-multiple branch leaves free_begin_ where it was
CarveResult_NoAdvance(free_begin, avail, bytes) ==
    IF bytes % kPtrSize = 0
    THEN [rv |-> free_begin, free_begin_ |-> free_begin]
    ELSE [rv |-> free_begin + avail - bytes, free_begin_ |-> free_begin]

\* a carve whose other branch hands out the low end without advancing
CarveResult_LowEnd(free_begin, avail, bytes) ==
    IF bytes % kPtrSize = 0
    THEN [rv |-> free_begin, free_begin_ |-> free_begin + bytes]
    ELSE [rv |-> free_begin, free_begin_ |-> free_begin]

\* carving c.bytes from a shard region starting at free_begin with avail bytes
CarveResult(free_begin, avail, bytes) ==
    IF bytes % kPtrSize = 0
    THEN [rv |-> free_begin, free_begin_ |-> free_begin + bytes]
    ELSE [rv |-> free_begin + avail - bytes, free_begin_ |-> free_begin]

InFlight == Cardinality({t \in Threads : thr[t].pc # "idle"})

\* the call a thread makes: the operation, the size asked for, the hint
Request(op, req, huge_page_size) ==
    [op |-> op, req |-> req, huge_page_size |-> huge_page_size]

ConcurrentRequests ==
    { Request("Allocate", 1, 0), Request("Allocate", 2048, 0),
      Request("AllocateAligned", 3, 0),
      Request("AllocateAligned", 8, 3000) }

\* ConcurrentArena(block_size) for a block_size of block_sizes, no tracker,
\* huge_page_size = 0
Construct(block_sizes) ==
    /\ \E block_size \in block_sizes :
           /\ shard_block_size_ = ShardBlockSize(block_size)
           /\ arena = Arena(block_size, NoTracker, 0)
    /\ shards_ = [i \in ShardIds |-> EmptyShard]
    /\ arena_mutex_ = FreeLock
    /\ arena_allocated_and_unused_ = AllocatedAndUnused(arena)
    /\ memory_allocated_bytes_ = MemoryAllocatedBytes(arena)
    /\ irregular_block_num_ = IrregularBlockNum(arena)
    /\ tls_cpuid = [t \in Threads |-> 0]
    /\ thr = [t \in Threads |-> IdleThread]
    /\ returned = << >>
    /\ last = [NoCall EXCEPT !.op = "ctor"] @@ [pre |-> NULL]
    /\ obs = ObsIdle
    /\ teardown = Alive
    /\ spin = NoSpin
    /\ twin = [arena_ |-> arena, try_lock_failed |-> FALSE]

InitConcurrent == Construct(BlockSizes)

\* the region a finished call hands to its caller
Returned(c, rv, path) == Region(rv, c.req, c.op = "AllocateAligned", path)

\* a slip that goes on to the refill without taking reload_lock
AtShard_NoReloadLock(c, s) ==
    LET avail == shards_[s].allocated_and_unused_
    IN  [c EXCEPT !.s = s, !.avail = avail,
                  !.pc = IF avail < c.bytes THEN "reload" ELSE "carve"]

\* the thread's locals once it holds shard s: avail is loaded and compared
AtShard(c, s) ==
    LET avail == shards_[s].allocated_and_unused_
    IN  [c EXCEPT !.s = s, !.avail = avail,
                  !.pc = IF avail < c.bytes THEN "reload_lock" ELSE "carve"]

\* a routing test without the third operand: a small request always goes to
\* the shards
Begin_ShardsFirst(t, requests) ==
    /\ thr[t].pc = "idle"
    /\ Len(returned) + InFlight < MaxCalls
    /\ \E q \in requests :
           LET bytes == IF q.op = "Allocate" THEN q.req ELSE RoundedUp(q.req)
               force == q.op = "AllocateAligned" /\ q.huge_page_size # 0
               cpu   == tls_cpuid[t]
               c     == [IdleThread EXCEPT !.op = q.op, !.req = q.req,
                            !.bytes = bytes,
                            !.huge_page_size = q.huge_page_size,
                            !.force_arena = force]
           IN  thr' = [thr EXCEPT ![t] =
                   IF bytes > shard_block_size_ \div 4 \/ force
                   THEN [c EXCEPT !.pc = "arena_lock"]
                   ELSE [c EXCEPT !.pc = "shard_try", !.cpu = cpu]]
    /\ UNCHANGED <<arena, returned, last, obs, teardown, spin, twin, shard_block_size_, shards_,
                   arena_mutex_, arena_allocated_and_unused_,
                   memory_allocated_bytes_, irregular_block_num_, tls_cpuid>>

\* a routing test without its second operand: force_arena is not looked at
Begin_IgnoresForce(t, requests) ==
    /\ thr[t].pc = "idle"
    /\ Len(returned) + InFlight < MaxCalls
    /\ \E q \in requests :
           LET bytes == IF q.op = "Allocate" THEN q.req ELSE RoundedUp(q.req)
               force == q.op = "AllocateAligned" /\ q.huge_page_size # 0
               cpu   == tls_cpuid[t]
               c     == [IdleThread EXCEPT !.op = q.op, !.req = q.req,
                            !.bytes = bytes,
                            !.huge_page_size = q.huge_page_size,
                            !.force_arena = force]
           IN  thr' = [thr EXCEPT ![t] =
                   IF bytes > shard_block_size_ \div 4
                   THEN [c EXCEPT !.pc = "arena_lock"]
                   ELSE IF cpu = 0 /\ shards_[0].allocated_and_unused_ = 0
                   THEN [c EXCEPT !.pc = "arena_try", !.cpu = cpu]
                   ELSE [c EXCEPT !.pc = "shard_try", !.cpu = cpu]]
    /\ UNCHANGED <<arena, returned, last, obs, teardown, spin, twin, shard_block_size_, shards_,
                   arena_mutex_, arena_allocated_and_unused_,
                   memory_allocated_bytes_, irregular_block_num_, tls_cpuid>>

\* entry of Allocate / AllocateAligned and the routing test of AllocateImpl up
\* to (not including) arena_lock.try_lock()
Begin(t, requests) ==
    /\ thr[t].pc = "idle"
    /\ Len(returned) + InFlight < MaxCalls
    /\ \E q \in requests :
           LET bytes == IF q.op = "Allocate" THEN q.req ELSE RoundedUp(q.req)
               force == q.op = "AllocateAligned" /\ q.huge_page_size # 0
               cpu   == tls_cpuid[t]
               c     == [IdleThread EXCEPT !.op = q.op, !.req = q.req,
                            !.bytes = bytes,
                            !.huge_page_size = q.huge_page_size,
                            !.force_arena = force]
           IN  thr' = [thr EXCEPT ![t] =
                   IF bytes > shard_block_size_ \div 4 \/ force
                   THEN [c EXCEPT !.pc = "arena_lock"]
                   ELSE IF cpu = 0 /\ shards_[0].allocated_and_unused_ = 0
                   THEN [c EXCEPT !.pc = "arena_try", !.cpu = cpu]
                   ELSE [c EXCEPT !.pc = "shard_try", !.cpu = cpu]]
    /\ UNCHANGED <<arena, returned, last, obs, teardown, spin, twin, shard_block_size_, shards_,
                   arena_mutex_, arena_allocated_and_unused_,
                   memory_allocated_bytes_, irregular_block_num_, tls_cpuid>>

Route(t) == Begin(t, ConcurrentRequests)

\* a routing test that waits for arena_mutex_ when try_lock fails
ArenaTryLock_Waits(t) ==
    /\ thr[t].pc = "arena_try"
    /\ \E r \in TryLock(arena_mutex_, t) :
           /\ arena_mutex_' = r.m
           /\ thr' = [thr EXCEPT ![t].pc = IF r.ok THEN "arena_call" ELSE "arena_lock"]
           /\ twin' = [twin EXCEPT !.try_lock_failed = @ \/ ~r.ok]
    /\ UNCHANGED <<arena, returned, last, obs, teardown, spin, shard_block_size_, shards_,
                   arena_allocated_and_unused_, memory_allocated_bytes_,
                   irregular_block_num_, tls_cpuid>>

\* arena_lock.try_lock() as the last operand of the routing test
ArenaTryLock(t) ==
    /\ thr[t].pc = "arena_try"
    /\ \E r \in TryLock(arena_mutex_, t) :
           /\ arena_mutex_' = r.m
           /\ thr' = [thr EXCEPT ![t].pc = IF r.ok THEN "arena_call" ELSE "shard_try"]
           /\ twin' = [twin EXCEPT !.try_lock_failed = @ \/ ~r.ok]
    /\ UNCHANGED <<arena, returned, last, obs, teardown, spin, shard_block_size_, shards_,
                   arena_allocated_and_unused_, memory_allocated_bytes_,
                   irregular_block_num_, tls_cpuid>>

\* arena_lock.lock() on the large / forced path: returns once acquired
ArenaLock(t) ==
    /\ thr[t].pc = "arena_lock"
    /\ ~arena_mutex_.locked_
    /\ arena_mutex_' = HeldBy(t)
    /\ thr' = [thr EXCEPT ![t].pc = "arena_call"]
    /\ UNCHANGED <<arena, returned, last, obs, teardown, spin, twin, shard_block_size_, shards_,
                   arena_allocated_and_unused_, memory_allocated_bytes_,
                   irregular_block_num_, tls_cpuid>>

\* direct path, lock held: auto rv = func(); Fixup(); return rv (arena_lock's
\* destructor unlocks)
ArenaCall(t) ==
    /\ thr[t].pc = "arena_call"
    /\ \E mapped1 \in BOOLEAN, mapped2 \in BOOLEAN :
           LET r == Func(thr[t], arena, mapped1, mapped2)
           IN  /\ arena' = r.a
               /\ Fixup(r.a)
               /\ returned' = Append(returned, Returned(thr[t], r.rv, "arena"))
               /\ twin' = [twin EXCEPT !.arena_ =
                              PlainCall(thr[t], @, mapped1, mapped2).a]
    /\ arena_mutex_' = Unlock(arena_mutex_)
    /\ thr' = [thr EXCEPT ![t] = IdleThread]
    /\ UNCHANGED <<last, obs, teardown, spin, shard_block_size_, shards_, tls_cpuid>>

\* a Repick that caches the bare index
Repick_BareIndex(core_idx) == [s |-> core_idx, tls_cpuid |-> core_idx]

\* Repick(): the provider reports core_idx; tls_cpuid = core_idx | Size()
Repick(core_idx) == [s |-> core_idx, tls_cpuid |-> core_idx + NumShards]

\* Shard* s = shards_.AccessAtCore(cpu & (Size() - 1));
\* if (!s->mutex.try_lock()) { s = Repick(); ... }
ShardTryLock(t) ==
    /\ thr[t].pc = "shard_try"
    /\ LET s == thr[t].cpu % NumShards
       IN  \E r \in TryLock(shards_[s].mutex, t) :
               IF r.ok
               THEN /\ shards_' = [shards_ EXCEPT ![s].mutex = r.m]
                    /\ thr' = [thr EXCEPT ![t] = AtShard(thr[t], s)]
                    /\ UNCHANGED <<tls_cpuid, twin>>
               ELSE \E core_idx \in CoreIdxs :
                        /\ tls_cpuid' = [tls_cpuid EXCEPT
                                            ![t] = Repick(core_idx).tls_cpuid]
                        /\ thr' = [thr EXCEPT ![t].s = Repick(core_idx).s,
                                              ![t].pc = "shard_lock"]
                        /\ twin' = [twin EXCEPT !.try_lock_failed = TRUE]
                        /\ UNCHANGED shards_
    /\ UNCHANGED <<arena, returned, last, obs, teardown, spin, shard_block_size_, arena_mutex_,
                   arena_allocated_and_unused_, memory_allocated_bytes_,
                   irregular_block_num_>>

\* s->mutex.lock() after Repick: returns once acquired
ShardLock(t) ==
    /\ thr[t].pc = "shard_lock"
    /\ ~shards_[thr[t].s].mutex.locked_
    /\ shards_' = [shards_ EXCEPT ![thr[t].s].mutex = HeldBy(t)]
    /\ thr' = [thr EXCEPT ![t] = AtShard(thr[t], thr[t].s)]
    /\ UNCHANGED <<arena, returned, last, obs, teardown, spin, twin, shard_block_size_, arena_mutex_,
                   arena_allocated_and_unused_, memory_allocated_bytes_,
                   irregular_block_num_, tls_cpuid>>

\* std::lock_guard<SpinLock> reload_lock(arena_mutex_)
ReloadLock(t) ==
    /\ thr[t].pc = "reload_lock"
    /\ ~arena_mutex_.locked_
    /\ arena_mutex_' = HeldBy(t)
    /\ thr' = [thr EXCEPT ![t].pc = "reload"]
    /\ UNCHANGED <<arena, returned, last, obs, teardown, spin, twin, shard_block_size_, shards_,
                   arena_allocated_and_unused_, memory_allocated_bytes_,
                   irregular_block_num_, tls_cpuid>>

\* under reload_lock, the inline bypass: rv = func(); Fixup(); return rv
\* (both locks are released)
ReloadBypass(t) ==
    /\ thr[t].pc = "reload"
    /\ arena_allocated_and_unused_ >= thr[t].bytes /\ IsInInlineBlock(arena)
    /\ \E mapped1 \in BOOLEAN, mapped2 \in BOOLEAN :
           LET r == Func(thr[t], arena, mapped1, mapped2)
           IN  /\ arena' = r.a
               /\ Fixup(r.a)
               /\ returned' = Append(returned, Returned(thr[t], r.rv, "bypass"))
               /\ twin' = [twin EXCEPT !.arena_ =
                              PlainCall(thr[t], @, mapped1, mapped2).a]
    /\ arena_mutex_' = Unlock(arena_mutex_)
    /\ shards_' = [shards_ EXCEPT ![thr[t].s].mutex = Unlock(@)]
    /\ thr' = [thr EXCEPT ![t] = IdleThread]
    /\ UNCHANGED <<last, obs, teardown, spin, shard_block_size_, tls_cpuid>>

\* a refill that takes the region from the Arena but leaves free_begin_ where
\* it was
ReloadRefill_KeepsPointer(t) ==
    /\ thr[t].pc = "reload"
    /\ ~(arena_allocated_and_unused_ >= thr[t].bytes /\ IsInInlineBlock(arena))
    /\ \E mapped2 \in BOOLEAN :
           LET avail == RefillSize(arena_allocated_and_unused_)
               r == AllocateAligned(arena, avail, 0, FALSE, mapped2)
           IN  /\ arena' = r.a
               /\ Fixup(r.a)
               /\ shards_' = shards_
               /\ thr' = [thr EXCEPT ![t].pc = "carve", ![t].avail = avail]
    /\ arena_mutex_' = Unlock(arena_mutex_)
    /\ UNCHANGED <<returned, last, obs, teardown, spin, twin, shard_block_size_, tls_cpuid>>

\* under reload_lock, the refill: s->free_begin_ = arena_.AllocateAligned(avail);
\* Fixup(); reload_lock is released at the end of its scope
ReloadRefill(t) ==
    /\ thr[t].pc = "reload"
    /\ ~(arena_allocated_and_unused_ >= thr[t].bytes /\ IsInInlineBlock(arena))
    /\ \E mapped2 \in BOOLEAN :
           LET avail == RefillSize(arena_allocated_and_unused_)
               r == AllocateAligned(arena, avail, 0, FALSE, mapped2)
           IN  /\ arena' = r.a
               /\ Fixup(r.a)
               /\ shards_' = [shards_ EXCEPT ![thr[t].s].free_begin_ = r.rv]
               /\ thr' = [thr EXCEPT ![t].pc = "carve", ![t].avail = avail]
    /\ arena_mutex_' = Unlock(arena_mutex_)
    /\ UNCHANGED <<returned, last, obs, teardown, spin, twin, shard_block_size_, tls_cpuid>>

\* a carve that returns with the shard lock still held
Carve_KeepsShardLock(t) ==
    /\ thr[t].pc = "carve"
    /\ LET s == thr[t].s
           c == CarveResult(shards_[s].free_begin_, thr[t].avail, thr[t].bytes)
       IN  /\ shards_' = [shards_ EXCEPT
                             ![s].allocated_and_unused_ = thr[t].avail - thr[t].bytes,
                             ![s].free_begin_ = c.free_begin_]
           /\ returned' = Append(returned, Returned(thr[t], c.rv, "shard"))
    /\ \E mapped1 \in BOOLEAN, mapped2 \in BOOLEAN :
           twin' = [twin EXCEPT !.arena_ =
                       PlainCall(thr[t], @, mapped1, mapped2).a]
    /\ thr' = [thr EXCEPT ![t] = IdleThread]
    /\ UNCHANGED <<arena, last, obs, teardown, spin, shard_block_size_, arena_mutex_,
                   arena_allocated_and_unused_, memory_allocated_bytes_,
                   irregular_block_num_, tls_cpuid>>

\* s->allocated_and_unused_.store(avail - bytes); carve rv; return (the shard
\* lock is released)
Carve(t) ==
    /\ thr[t].pc = "carve"
    /\ LET s == thr[t].s
           c == CarveResult(shards_[s].free_begin_, thr[t].avail, thr[t].bytes)
       IN  /\ shards_' = [shards_ EXCEPT
                             ![s].allocated_and_unused_ = thr[t].avail - thr[t].bytes,
                             ![s].free_begin_ = c.free_begin_,
                             ![s].mutex = Unlock(@)]
           /\ returned' = Append(returned, Returned(thr[t], c.rv, "shard"))
    /\ \E mapped1 \in BOOLEAN, mapped2 \in BOOLEAN :
           twin' = [twin EXCEPT !.arena_ =
                       PlainCall(thr[t], @, mapped1, mapped2).a]
    /\ thr' = [thr EXCEPT ![t] = IdleThread]
    /\ UNCHANGED <<arena, last, obs, teardown, spin, shard_block_size_, arena_mutex_,
                   arena_allocated_and_unused_, memory_allocated_bytes_,
                   irregular_block_num_, tls_cpuid>>

NextConcurrent ==
    \E t \in Threads :
        \/ Route(t)
        \/ ArenaTryLock(t)
        \/ ArenaLock(t)
        \/ ArenaCall(t)
        \/ ShardTryLock(t)
        \/ ShardLock(t)
        \/ ReloadLock(t)
        \/ ReloadBypass(t)
        \/ ReloadRefill(t)
        \/ Carve(t)

SpecConcurrent == InitConcurrent /\ [][NextConcurrent]_vars

(***************************************************************************)
(* ConcurrentArena used by one thread, beside a plain Arena of the same    *)
(* block size that is fed the same requests                                *)
(***************************************************************************)
\* the one thread
Caller == 1

\* block sizes that give shards of 12, 625 and 2048 bytes
SingleBlockSizes == {100, 5000, 16384}

SingleRequests ==
    { Request("Allocate", 1, 0), Request("Allocate", 2032, 0),
      Request("Allocate", 2044, 0), Request("Allocate", 2047, 0),
      Request("Allocate", 5000, 0),
      Request("AllocateAligned", 3, 0), Request("AllocateAligned", 16, 0),
      Request("AllocateAligned", 8, 3000) }

InitSingle == Construct(SingleBlockSizes)

SingleRoute == Begin(Caller, SingleRequests)

NextSingle ==
    \/ SingleRoute
    \/ ArenaTryLock(Caller)
    \/ ArenaLock(Caller)
    \/ ArenaCall(Caller)
    \/ ShardTryLock(Caller)
    \/ ShardLock(Caller)
    \/ ReloadLock(Caller)
    \/ ReloadBypass(Caller)
    \/ ReloadRefill(Caller)
    \/ Carve(Caller)

SpecSingle == InitSingle /\ [][NextSingle]_vars

(***************************************************************************)
(* ConcurrentArena with ApproximateMemoryUsage calls and fair scheduling:  *)
(* a thread that can take a step of a call it has begun eventually takes   *)
(* it.  Beginning a call is left to the thread.                            *)
(***************************************************************************)
\* a block size that gives shards of 625 bytes
FairBlockSizes == {5000}

\* one request for the Arena itself, one for a shard
FairRequests == {Request("Allocate", 2048, 0), Request("AllocateAligned", 3, 0)}

InitFair == Construct(FairBlockSizes)

FairRoute(t) == Begin(t, FairRequests)

\* ApproximateMemoryUsage() is called: std::lock_guard lock(arena_mutex_) is next
UsageCall(t) ==
    /\ thr[t].pc = "idle"
    /\ Len(returned) + InFlight < MaxCalls
    /\ thr' = [thr EXCEPT ![t] =
                  [IdleThread EXCEPT !.op = "ApproximateMemoryUsage",
                                     !.pc = "usage_lock"]]
    /\ UNCHANGED <<arena, returned, last, obs, teardown, spin, twin, shard_block_size_,
                   shards_, arena_mutex_, arena_allocated_and_unused_,
                   memory_allocated_bytes_, irregular_block_num_, tls_cpuid>>

\* the lock_guard's constructor returns once arena_mutex_ is acquired
UsageLock(t) ==
    /\ thr[t].pc = "usage_lock"
    /\ ~arena_mutex_.locked_
    /\ arena_mutex_' = HeldBy(t)
    /\ thr' = [thr EXCEPT ![t].pc = "usage"]
    /\ UNCHANGED <<arena, returned, last, obs, teardown, spin, twin, shard_block_size_,
                   shards_, arena_allocated_and_unused_, memory_allocated_bytes_,
                   irregular_block_num_, tls_cpuid>>

\* a slip that counts the block pointers and nothing else
ApproximateMemoryUsage_PointersOnly(a) == Len(a.blocks_) * kPtrSize

\* Arena::ApproximateMemoryUsage
ApproximateMemoryUsage(a) ==
    a.blocks_memory_ + Len(a.blocks_) * kPtrSize - a.alloc_bytes_remaining_

RECURSIVE SumUnused(_)
SumUnused(ids) ==
    IF ids = {} THEN 0
    ELSE LET i == CHOOSE i \in ids : TRUE
         IN  shards_[i].allocated_and_unused_ + SumUnused(ids \ {i})

\* ConcurrentArena::ShardAllocatedAndUnused
ShardAllocatedAndUnused == SumUnused(ShardIds)

\* return arena_.ApproximateMemoryUsage() - ShardAllocatedAndUnused(); the
\* lock_guard unlocks
UsageReturn(t) ==
    /\ thr[t].pc = "usage"
    /\ returned' = Append(returned,
                          Region(NULL,
                                 ApproximateMemoryUsage(arena) - ShardAllocatedAndUnused,
                                 FALSE, "usage"))
    /\ arena_mutex_' = Unlock(arena_mutex_)
    /\ thr' = [thr EXCEPT ![t] = IdleThread]
    /\ UNCHANGED <<arena, last, obs, teardown, spin, twin, shard_block_size_, shards_,
                   arena_allocated_and_unused_, memory_allocated_bytes_,
                   irregular_block_num_, tls_cpuid>>

\* the steps of thread t other than beginning a call
Proceed(t) ==
    \/ ArenaTryLock(t)
    \/ ArenaLock(t)
    \/ ArenaCall(t)
    \/ ShardTryLock(t)
    \/ ShardLock(t)
    \/ ReloadLock(t)
    \/ ReloadBypass(t)
    \/ ReloadRefill(t)
    \/ Carve(t)
    \/ UsageLock(t)
    \/ UsageReturn(t)

NextFair == \E t \in Threads : FairRoute(t) \/ UsageCall(t) \/ Proceed(t)

SpecFair ==
    InitFair /\ [][NextFair]_vars /\ \A t \in Threads : WF_vars(Proceed(t))

(***************************************************************************)
(* Vocabulary of the properties                                            *)
(***************************************************************************)
InlineBlock == Block(InlineBase, kInlineSize)

\* every buffer the Arena a owns
OwnedBlocks(a) ==
    {InlineBlock} \cup {a.blocks_[i] : i \in 1 .. Len(a.blocks_)}
                  \cup {a.huge_blocks_[i] : i \in 1 .. Len(a.huge_blocks_)}

Inside(p, n, b) == b.base <= p /\ p + n <= b.base + b.size

Disjoint(r1, r2) == r1.p + r1.n <= r2.p \/ r2.p + r2.n <= r1.p

IsPrefix(s, t) == Len(s) <= Len(t) /\ \A i \in 1 .. Len(s) : s[i] = t[i]

IsCall == last.op \in {"Allocate", "AllocateAligned"}

\* the padding AllocateAligned needs in Arena a
SlopOf(a) ==
    IF a.aligned_alloc_ptr_ % kAlignUnit = 0
    THEN 0
    ELSE kAlignUnit - (a.aligned_alloc_ptr_ % kAlignUnit)

\* the last call did not fit in the active region and no huge-page mapping
\* served it: it went to the fallback path
LastReachedFallback ==
    \/ last.op = "Allocate" /\ last.bytes >= last.pre.alloc_bytes_remaining_
    \/ /\ last.op = "AllocateAligned"
       /\ last.bytes + SlopOf(last.pre) > last.pre.alloc_bytes_remaining_
       /\ \A i \in 1 .. Len(arena.huge_blocks_) : arena.huge_blocks_[i].base # last.rv

(***************************************************************************)
(* C1: the regions a plain Arena has returned are pairwise disjoint and    *)
(* each lies inside the inline buffer or inside one owned block.           *)
(***************************************************************************)
C1_RegionsDisjointAndOwned ==
    /\ \A i, j \in 1 .. Len(returned) :
           i < j => Disjoint(returned[i], returned[j])
    /\ \A i \in 1 .. Len(returned) :
           \E b \in OwnedBlocks(arena) : Inside(returned[i].p, returned[i].n, b)

\* two regions carved from one heap block, after the inline buffer ran out
C1_Witness ==
    \E i, j \in 1 .. Len(returned) :
        /\ i < j
        /\ \E k \in 1 .. Len(arena.blocks_) :
               /\ Inside(returned[i].p, returned[i].n, arena.blocks_[k])
               /\ Inside(returned[j].p, returned[j].n, arena.blocks_[k])

(***************************************************************************)
(* C3: every address returned by Arena::AllocateAligned is a multiple of   *)
(* kAlignUnit.                                                             *)
(***************************************************************************)
C3_AlignedAddress ==
    \A i \in 1 .. Len(returned) :
        returned[i].aligned => returned[i].p % kAlignUnit = 0

\* an aligned request served while the aligned cursor was misaligned
C3_Witness ==
    /\ last.op = "AllocateAligned"
    /\ SlopOf(last.pre) > 0
    /\ ~LastReachedFallback
    /\ Inside(last.rv, last.bytes, InlineBlock)

(***************************************************************************)
(* C5: aligned_alloc_ptr_ <= unaligned_alloc_ptr_, their distance is       *)
(* alloc_bytes_remaining_, and both lie in one owned buffer.               *)
(***************************************************************************)
C5_CursorInvariant ==
    /\ arena.aligned_alloc_ptr_ <= arena.unaligned_alloc_ptr_
    /\ arena.unaligned_alloc_ptr_ - arena.aligned_alloc_ptr_
           = arena.alloc_bytes_remaining_
    /\ \E b \in OwnedBlocks(arena) :
           /\ b.base <= arena.aligned_alloc_ptr_
           /\ arena.unaligned_alloc_ptr_ <= b.base + b.size

\* the active region is a huge-page block made after an irregular block
C5_Witness ==
    /\ \E i \in 1 .. Len(arena.huge_blocks_) :
           Inside(arena.aligned_alloc_ptr_, arena.alloc_bytes_remaining_,
                  arena.huge_blocks_[i])
    /\ arena.irregular_block_num >= 1
    /\ arena.alloc_bytes_remaining_ > 0

(***************************************************************************)
(* C6: no call releases or replaces a block: the block collections only    *)
(* grow, MemoryAllocatedBytes() and IrregularBlockNum() never decrease,    *)
(* and every region returned so far stays inside an owned buffer.          *)
(***************************************************************************)
C6_OnlyAccumulates ==
    [][ /\ IsPrefix(arena.blocks_, arena'.blocks_)
        /\ IsPrefix(arena.huge_blocks_, arena'.huge_blocks_)
        /\ MemoryAllocatedBytes(arena') >= MemoryAllocatedBytes(arena)
        /\ IrregularBlockNum(arena') >= IrregularBlockNum(arena)
        /\ \A i \in 1 .. Len(returned) :
               \E b \in OwnedBlocks(arena') :
                   Inside(returned[i].p, returned[i].n, b) ]_vars

\* a second heap block was acquired while a region of the first is live
C6_Witness ==
    /\ Len(arena.blocks_) >= 2
    /\ \E i \in 1 .. Len(returned) :
           Inside(returned[i].p, returned[i].n, arena.blocks_[1])

(***************************************************************************)
(* C7 as stated: every call with bytes > kBlockSize/4 creates exactly one  *)
(* new irregular block of exactly `bytes` bytes and adds 1 to              *)
(* IrregularBlockNum().                                                    *)
(***************************************************************************)
LastMadeIrregularBlock ==
    /\ arena.irregular_block_num = last.pre.irregular_block_num + 1
    /\ arena.blocks_ = Append(last.pre.blocks_, Block(last.rv, last.bytes))
    /\ arena.huge_blocks_ = last.pre.huge_blocks_

C7_AsStated ==
    (IsCall /\ last.bytes > arena.kBlockSize \div 4) => LastMadeIrregularBlock

(***************************************************************************)
(* C7 amended: every call with bytes > kBlockSize/4 that reaches the       *)
(* fallback path creates exactly one new irregular block of exactly        *)
(* `bytes` bytes, returns that fresh block and adds 1 to                   *)
(* IrregularBlockNum(); a call that is served from the active region or    *)
(* from a huge-page mapping creates no irregular block.                    *)
(***************************************************************************)
C7_FallbackMakesIrregularBlock ==
    (IsCall /\ last.bytes > arena.kBlockSize \div 4) =>
        IF LastReachedFallback
        THEN /\ LastMadeIrregularBlock
             /\ \A i \in 1 .. Len(last.pre.blocks_) :
                    ~Inside(last.rv, last.bytes, last.pre.blocks_[i])
        ELSE /\ arena.irregular_block_num = last.pre.irregular_block_num
             /\ arena.blocks_ = last.pre.blocks_

\* an oversized fallback request when an irregular block already exists
C7_Witness ==
    /\ IsCall
    /\ last.bytes > arena.kBlockSize \div 4
    /\ LastReachedFallback
    /\ last.pre.irregular_block_num >= 1

(***************************************************************************)
(* C8 as stated: IsInInlineBlock() is true before the first regular or     *)
(* huge-page block is created and false after it.  The regular blocks are  *)
(* the heap blocks that are not irregular ones.                            *)
(***************************************************************************)
RegularBlockNum(a) == Len(a.blocks_) - a.irregular_block_num

Clamped(x) ==
    IF WLess(x, kMinBlockSizeW) THEN kMinBlockSizeW
    ELSE IF WLess(kMaxBlockSizeW, x) THEN kMaxBlockSizeW
    ELSE x

WLeq(a, b) == ~WLess(b, a)

\* b - a < k, for a <= b
WCloserThan(a, b, k) ==
    \/ a.hi = b.hi /\ b.lo - a.lo < k
    \/ a.hi + 1 = b.hi /\ WBase + b.lo - a.lo < k

C9_OptimizeBlockSizeRange ==
    obs.pc # "idle" =>
        /\ WLeq(kMinBlockSizeW, obs.r1)
        /\ WLeq(obs.r1, kMaxBlockSizeW)
        /\ WMod(obs.r1, kAlignUnit) = 0
        /\ WLeq(Clamped(obs.x), obs.r1)
        /\ WCloserThan(Clamped(obs.x), obs.r1, kAlignUnit)

\* an input just below kMaxBlockSize whose round-up lands on kMaxBlockSize
C9_Witness ==
    /\ obs.pc = "once"
    /\ WLess(obs.x, kMaxBlockSizeW)
    /\ WMod(obs.x, kAlignUnit) # 0
    /\ obs.r1 = kMaxBlockSizeW

(***************************************************************************)
(* C10: OptimizeBlockSize(OptimizeBlockSize(x)) = OptimizeBlockSize(x).    *)
(***************************************************************************)
C10_OptimizeBlockSizeIdempotent ==
    obs.pc = "twice" => obs.r2 = obs.r1

\* the second application, for an input the first application changed
C10_Witness ==
    /\ obs.pc = "twice"
    /\ obs.r1 # obs.x

(***************************************************************************)
(* C2: under every interleaving of the threads' calls on a ConcurrentArena *)
(* the regions returned so far are pairwise disjoint, whichever path       *)
(* served them.                                                            *)
(***************************************************************************)
C2_ConcurrentRegionsDisjoint ==
    \A i, j \in 1 .. Len(returned) :
        i < j => Disjoint(returned[i], returned[j])

\* two shards were refilled from one owned buffer and each served a call,
\* after a call served by the Arena directly
C2_Witness ==
    \E i, j, k \in 1 .. Len(returned) :
        /\ i # j
        /\ returned[i].path = "shard" /\ returned[j].path = "shard"
        /\ \E s1, s2 \in ShardIds :
               /\ s1 # s2
               /\ shards_[s1].free_begin_ # NULL
               /\ shards_[s2].free_begin_ # NULL
        /\ returned[k].path = "arena"
        /\ \E b \in OwnedBlocks(arena) :
               /\ Inside(returned[i].p, returned[i].n, b)
               /\ Inside(returned[j].p, returned[j].n, b)

(***************************************************************************)
(* C4: every address returned by ConcurrentArena::AllocateAligned is a     *)
(* multiple of kAlignUnit, on the direct path, the inline bypass and the   *)
(* shard path.                                                             *)
(***************************************************************************)
C4_ConcurrentAlignedAddress ==
    \A i \in 1 .. Len(returned) :
        returned[i].aligned => returned[i].p % kAlignUnit = 0

(***************************************************************************)
(* C11: once every thread has finished its calls, ConcurrentArena's        *)
(* MemoryAllocatedBytes() is the sum of the sizes of the blocks the Arena  *)
(* has created: the inline block of the constructor, the heap blocks and   *)
(* the huge-page mappings.                                                 *)
(***************************************************************************)
RECURSIVE SumSizes(_)
SumSizes(blocks) ==
    IF blocks = << >> THEN 0 ELSE Head(blocks).size + SumSizes(Tail(blocks))

\* the blocks Arena a has created, in the order of their creation per kind
CreatedBlocks(a) == <<InlineBlock>> \o a.blocks_ \o a.huge_blocks_

AllFinished == \A t \in Threads : thr[t].pc = "idle"

C11_MemoryAllocatedBytesIsBlockTotal ==
    AllFinished => memory_allocated_bytes_ = SumSizes(CreatedBlocks(arena))

\* all calls are over, a shard and the Arena itself served some of them, and
\* a heap block was created
C11_Witness ==
    /\ AllFinished
    /\ \E i, j \in 1 .. Len(returned) :
           returned[i].path = "shard" /\ returned[j].path = "arena"
    /\ arena.blocks_ # << >>
    /\ memory_allocated_bytes_ > kInlineSize


(***************************************************************************)
(* C12: destroying an Arena never fails an assertion, also when its        *)
(* tracker was not freed beforehand; it releases every owned block exactly *)
(* once, and with a tracker attached the destructor calls FreeMem exactly  *)
(* once, after which is_freed() is true.                                   *)
(***************************************************************************)
\* how often block b occurs in the sequence of released blocks
TimesReleased(b) ==
    Cardinality({i \in 1 .. Len(teardown.released) : teardown.released[i] = b})

C12_DestructionReleasesOnce ==
    teardown.pc # "alive" =>
        /\ teardown.pc = "destroyed"
        /\ \A b \in OwnedBlocks(arena) \ {InlineBlock} : TimesReleased(b) = 1
        /\ arena.tracker_.addr # NULL =>
               /\ arena.tracker_.FreeMem_calls
                      = last.pre.tracker_.FreeMem_calls + 1
               /\ is_freed(arena.tracker_)


(***************************************************************************)
(* C13: Arena::Allocate(bytes) with bytes <= AllocatedAndUnused() is       *)
(* carved from the high end of the active region: the unaligned cursor     *)
(* moves down by bytes and is returned, the remaining count drops by       *)
(* bytes, and no block is acquired; only a request that does not fit       *)
(* acquires a block.                                                       *)
(***************************************************************************)
NoBlockAcquired ==
    /\ arena.blocks_ = last.pre.blocks_
    /\ arena.huge_blocks_ = last.pre.huge_blocks_
    /\ arena.blocks_memory_ = last.pre.blocks_memory_

C13_AllocateCarvesWhenItFits ==
    last.op = "Allocate" =>
        IF last.bytes <= last.pre.alloc_bytes_remaining_
        THEN /\ arena.unaligned_alloc_ptr_
                    = last.pre.unaligned_alloc_ptr_ - last.bytes
             /\ last.rv = arena.unaligned_alloc_ptr_
             /\ arena.alloc_bytes_remaining_
                    = last.pre.alloc_bytes_remaining_ - last.bytes
             /\ NoBlockAcquired
        ELSE ~NoBlockAcquired


(***************************************************************************)
(* C14: on a freshly constructed Arena, as long as the calls made so far   *)
(* consume (bytes plus alignment padding) less than the 2048-byte inline   *)
(* buffer, every call was served from the inline buffer: IsInInlineBlock() *)
(* is true, MemoryAllocatedBytes() is 2048 and AllocatedAndUnused() is     *)
(* 2048 minus the bytes and padding consumed.                              *)
(***************************************************************************)
\* what the first k requests of rs consume when carved from one buffer that
\* starts at InlineBase: total is bytes plus padding, cursor the low end
RECURSIVE Walk(_, _)
Walk(rs, k) ==
    IF k = 0
    THEN [total |-> 0, cursor |-> InlineBase]
    ELSE LET w    == Walk(rs, k - 1)
             r    == rs[k]
             slop == IF r.aligned
                     THEN (kAlignUnit - (w.cursor % kAlignUnit)) % kAlignUnit
                     ELSE 0
         IN  [ total  |-> w.total + r.n + slop,
               cursor |-> IF r.aligned THEN w.cursor + slop + r.n ELSE w.cursor ]

Consumed == Walk(returned, Len(returned)).total

ServedFromInline ==
    /\ IsInInlineBlock(arena)
    /\ MemoryAllocatedBytes(arena) = kInlineSize
    /\ AllocatedAndUnused(arena) = kInlineSize - Consumed
    /\ \A i \in 1 .. Len(returned) :
           Inside(returned[i].p, returned[i].n, InlineBlock)

\* the claim as stated, for every AllocateAligned call
C14_AsStated == Consumed < kInlineSize => ServedFromInline

\* the same, for sequences in which no AllocateAligned call with a huge-page
\* hint was served by a huge-page mapping
C14_InlineServesSmallSequences ==
    (arena.huge_blocks_ = << >> /\ Consumed < kInlineSize) => ServedFromInline

\* three calls, unaligned and aligned, one of them padded, all from the
\* inline buffer
C14_Witness ==
    /\ Len(returned) >= 3
    /\ arena.huge_blocks_ = << >>
    /\ Consumed < kInlineSize
    /\ \E i, j \in 1 .. Len(returned) :
           /\ ~returned[i].aligned
           /\ returned[j].aligned
           /\ \E k \in 1 .. (j - 1) :
                  /\ returned[k].aligned
                  /\ returned[j].p > returned[k].p + returned[k].n


(***************************************************************************)
(* C15: a call during which a huge-page mapping attempt failed still       *)
(* returns a non-null region, taken from the region that was active or     *)
(* from a heap block, and the failed attempt adds nothing to huge_blocks_, *)
(* blocks_memory_ or the tracker's total.                                  *)
(***************************************************************************)
\* the elements call `last` appended to a block collection
Appended(before, after) == SubSeq(after, Len(before) + 1, Len(after))

MappingFailedInLast == IsCall /\ arena.mmap_failed > last.pre.mmap_failed

\* the last region lies in the region that was active when the call began
FromActiveRegion ==
    /\ last.pre.aligned_alloc_ptr_ <= last.rv
    /\ last.rv + last.bytes <= last.pre.unaligned_alloc_ptr_

FromHeapBlock ==
    \E i \in 1 .. Len(arena.blocks_) :
        Inside(last.rv, last.bytes, arena.blocks_[i])

\* the last region lies in a huge-page block mapped during the call
FromNewHugeBlock ==
    \E i \in (Len(last.pre.huge_blocks_) + 1) .. Len(arena.huge_blocks_) :
        Inside(last.rv, last.bytes, arena.huge_blocks_[i])

\* blocks_memory_ and the tracker's total grew by the blocks created, no more
OnlyCreatedBlocksCounted ==
    LET created == SumSizes(Appended(last.pre.blocks_, arena.blocks_))
                     + SumSizes(Appended(last.pre.huge_blocks_, arena.huge_blocks_))
    IN  /\ arena.blocks_memory_ = last.pre.blocks_memory_ + created
        /\ arena.tracker_.bytes_allocated_
               = last.pre.tracker_.bytes_allocated_
                   + (IF arena.tracker_.addr # NULL THEN created ELSE 0)
        /\ Len(arena.huge_blocks_) - Len(last.pre.huge_blocks_)
               <= 1 + last.pre.mmap_failed - arena.mmap_failed
                    + (IF last.op = "AllocateAligned" THEN 1 ELSE 0)

Holders(l) == {t \in Threads : l \in spin.caller[t].held}

C16_SpinLockMutualExclusion ==
    \A l \in SpinLocks :
        /\ Cardinality(Holders(l)) <= 1
        /\ spin.locked_[l] <=> Holders(l) # {}
        /\ \A t \in Threads :
               LET c == spin.caller[t]
               IN  /\ (c.pc = "idle" /\ c.lock = l /\ c.call = "lock")
                          => t \in Holders(l)
                   /\ (c.pc = "idle" /\ c.lock = l /\ c.call = "try_lock")
                          => (c.rv <=> t \in Holders(l))
                   /\ (c.pc = "idle" /\ c.lock = l /\ c.call = "unlock")
                          => t \notin Holders(l)

\* one thread's lock() has returned with the lock, and another thread's
\* try_lock on the same lock has returned false
C16_Witness ==
    \E l \in SpinLocks, t1, t2 \in Threads :
        /\ t1 # t2
        /\ Holders(l) = {t1}
        /\ spin.caller[t1].call = "lock"
        /\ spin.caller[t2].pc = "idle"
        /\ spin.caller[t2].call = "try_lock"
        /\ spin.caller[t2].lock = l
        /\ ~spin.caller[t2].rv


(***************************************************************************)
(* C17: in every step of every interleaving, the Arena is read or changed  *)
(* only by a thread that holds arena_mutex_, and a shard's free_begin_ and *)
(* allocated_and_unused_ are written only by the thread that holds that    *)
(* shard's mutex.                                                          *)
(***************************************************************************)
\* thread t is at a point of AllocateImpl that reads or changes arena_
TouchesArena(t) == thr[t].pc \in {"arena_call", "reload"}

\* thread t is at a point of AllocateImpl that reads or writes shard s
TouchesShard(t, s) ==
    thr[t].pc \in {"reload_lock", "reload", "carve"} /\ thr[t].s = s

ShardWritten(s) ==
    \/ shards_'[s].free_begin_ # shards_[s].free_begin_
    \/ shards_'[s].allocated_and_unused_ # shards_[s].allocated_and_unused_

C17_StateChangesUnderLock ==
    [][ /\ \A t \in Threads :
               /\ TouchesArena(t) => arena_mutex_ = HeldBy(t)
               /\ \A s \in ShardIds :
                      TouchesShard(t, s) => shards_[s].mutex = HeldBy(t)
        /\ arena' # arena =>
               \E t \in Threads :
                   arena_mutex_ = HeldBy(t) /\ TouchesArena(t) /\ thr'[t] # thr[t]
        /\ \A s \in ShardIds :
               ShardWritten(s) =>
                   \E t \in Threads :
                       /\ shards_[s].mutex = HeldBy(t)
                       /\ TouchesShard(t, s)
                       /\ thr'[t] # thr[t] ]_vars

\* one thread refills its shard under both locks while another waits for
\* arena_mutex_ with a request for the Arena itself
C17_Witness ==
    \E t1, t2 \in Threads :
        /\ thr[t1].pc = "reload"
        /\ ~IsInInlineBlock(arena)
        /\ shards_[thr[t1].s].mutex = HeldBy(t1)
        /\ arena_mutex_ = HeldBy(t1)
        /\ thr[t2].pc = "arena_lock"


(***************************************************************************)
(* C18: with finitely many threads making finitely many Allocate,          *)
(* AllocateAligned and ApproximateMemoryUsage calls under fair scheduling, *)
(* every call that has begun eventually returns.                           *)
(***************************************************************************)
C18_EveryCallReturns ==
    \A t \in Threads : (thr[t].pc # "idle") ~> (thr[t].pc = "idle")

\* a thread waits for a shard lock held by a thread that is refilling under
\* arena_mutex_
C18_Witness ==
    \E t1, t2 \in Threads :
        /\ thr[t1].pc = "shard_lock"
        /\ shards_[thr[t1].s].mutex = HeldBy(t2)
        /\ thr[t2].pc = "reload"
        /\ arena_mutex_ = HeldBy(t2)



(***************************************************************************)
(* C19: for a single thread none of whose try_lock calls fails, a          *)
(* ConcurrentArena and a plain Arena built with the same block size and    *)
(* fed the same sequence of Allocate / AllocateAligned requests end with   *)
(* the same MemoryAllocatedBytes() and the same IrregularBlockNum().       *)
(***************************************************************************)
\* the thread is between calls and no try_lock it made has failed
Uncontended == thr[Caller].pc = "idle" /\ ~twin.try_lock_failed

\* ConcurrentArena::MemoryAllocatedBytes() and IrregularBlockNum() against the
\* plain Arena's
SameFootprint ==
    /\ memory_allocated_bytes_ = MemoryAllocatedBytes(twin.arena_)
    /\ irregular_block_num_ = IrregularBlockNum(twin.arena_)

\* every AllocateAligned so far asked for a multiple of sizeof(void*)
WordMultiples ==
    \A i \in DOMAIN returned :
        returned[i].aligned => returned[i].n % kPtrSize = 0

CachesFresh ==
    /\ arena_allocated_and_unused_ = AllocatedAndUnused(arena)
    /\ memory_allocated_bytes_ = MemoryAllocatedBytes(arena)
    /\ irregular_block_num_ = IrregularBlockNum(arena)

\* a thread has taken reload_lock and is about to load exact and assert
AtRefillAssert(t) == thr[t].pc = "reload"

C20_CachesMatchArena ==
    /\ ~arena_mutex_.locked_ => CachesFresh
    /\ \A t \in Threads :
           AtRefillAssert(t) =>
               arena_allocated_and_unused_ = AllocatedAndUnused(arena)

\* the lock is free after a direct call has made an irregular block and a
\* refill has passed its assertion and handed a region to a shard
C20_Witness ==
    /\ ~arena_mutex_.locked_
    /\ irregular_block_num_ > 0
    /\ memory_allocated_bytes_ > kInlineSize
    /\ \E i \in DOMAIN returned : returned[i].path = "shard"
    /\ \E s \in ShardIds : shards_[s].free_begin_ # NULL


(***************************************************************************)
(* C21: in every reachable state each shard's free range                   *)
(* [free_begin_, free_begin_ + allocated_and_unused_) lies inside one      *)
(* buffer the Arena owns and overlaps no region already returned, no other *)
(* shard's free range and not the Arena's own free active region.          *)
(***************************************************************************)
\* the bytes shard s still has to give out
FreeRange(s) ==
    [p |-> shards_[s].free_begin_, n |-> shards_[s].allocated_and_unused_]

\* the bytes between the Arena's two cursors
ActiveFree(a) == [p |-> a.aligned_alloc_ptr_, n |-> a.alloc_bytes_remaining_]

C21_ShardFreeRangeOwnedAndDisjoint ==
    \A s \in ShardIds :
        FreeRange(s).n > 0 =>
            /\ \E b \in OwnedBlocks(arena) :
                   Inside(FreeRange(s).p, FreeRange(s).n, b)
            /\ \A i \in 1 .. Len(returned) : Disjoint(FreeRange(s), returned[i])
            /\ \A s2 \in ShardIds \ {s} :
                   FreeRange(s2).n > 0 => Disjoint(FreeRange(s), FreeRange(s2))
            /\ Disjoint(FreeRange(s), ActiveFree(arena))

\* two shards hold bytes, one of them has served a call from each end of its
\* region, and the Arena's active region still has bytes
C21_Witness ==
    /\ \E s1, s2 \in ShardIds :
           s1 # s2 /\ FreeRange(s1).n > 0 /\ FreeRange(s2).n > 0
    /\ \E i, j \in 1 .. Len(returned) :
           /\ returned[i].path = "shard" /\ returned[i].aligned
           /\ returned[j].path = "shard" /\ ~returned[j].aligned
    /\ ActiveFree(arena).n > 0


(***************************************************************************)
(* C22: a request with bytes > shard_block_size_ / 4, or an AllocateAligned *)
(* with a non-zero huge-page hint, is served by the Arena with             *)
(* arena_mutex_ held and leaves every shard as it was: no shard lock is    *)
(* taken, no free_begin_ or allocated_and_unused_ is written, and the      *)
(* thread's tls_cpuid is not changed.                                      *)
(***************************************************************************)
\* c is a call in progress that is large or forced
LargeOrForced(c) ==
    c.pc # "idle" /\ (c.bytes > shard_block_size_ \div 4 \/ c.force_arena)

C22_LargeOrForcedLeavesShardsAlone ==
    [][ \A t \in Threads :
            (thr'[t] # thr[t] /\ (LargeOrForced(thr[t]) \/ LargeOrForced(thr'[t]))) =>
                /\ shards_' = shards_
                /\ tls_cpuid' = tls_cpuid
                /\ thr'[t].pc \in {"arena_lock", "arena_call", "idle"}
                /\ arena' # arena => arena_mutex_ = HeldBy(t)
                /\ returned' # returned =>
                       /\ arena_mutex_ = HeldBy(t)
                       /\ returned'[Len(returned')].path = "arena" ]_vars

\* a thread that has re-picked a shard, and whose shard still has bytes, is
\* inside the Arena with a large or forced request
C22_Witness ==
    \E t \in Threads :
        /\ LargeOrForced(thr[t])
        /\ thr[t].pc = "arena_call"
        /\ arena_mutex_ = HeldBy(t)
        /\ tls_cpuid[t] # 0
        /\ shards_[tls_cpuid[t] % NumShards].allocated_and_unused_ > 0


(***************************************************************************)
(* C23: a small (bytes <= shard_block_size_ / 4), non-forced request takes *)
(* the direct Arena path exactly when the thread's tls_cpuid is 0, shard   *)
(* 0's allocated_and_unused_ is 0 and try_lock on arena_mutex_ succeeds;   *)
(* in every other case it takes the shard path, and it never waits for     *)
(* arena_mutex_ at the routing step.                                       *)
(***************************************************************************)
\* c is a call in progress that is neither large nor forced
SmallUnforced(c) == c.pc # "idle" /\ ~LargeOrForced(c)

C23_SmallRequestRouting ==
    [][ \A t \in Threads :
            (thr'[t] # thr[t] /\ SmallUnforced(thr'[t])) =>
                /\ thr'[t].pc # "arena_lock"
                /\ thr[t].pc = "idle" =>
                       IF tls_cpuid[t] = 0 /\ shards_[0].allocated_and_unused_ = 0
                       THEN thr'[t].pc = "arena_try"
                       ELSE thr'[t].pc = "shard_try"
                /\ thr[t].pc = "arena_try" =>
                       IF arena_mutex_' = HeldBy(t)
                       THEN ~arena_mutex_.locked_ /\ thr'[t].pc = "arena_call"
                       ELSE arena_mutex_' = arena_mutex_ /\ thr'[t].pc = "shard_try"
                /\ thr'[t].pc = "arena_call" => thr[t].pc = "arena_try" ]_vars

\* a small request of a thread with tls_cpuid 0 and an empty shard 0 has gone
\* on to the shards because another thread holds arena_mutex_
C23_Witness ==
    \E t1, t2 \in Threads :
        /\ t1 # t2
        /\ SmallUnforced(thr[t1])
        /\ thr[t1].pc = "shard_try"
        /\ tls_cpuid[t1] = 0
        /\ shards_[0].allocated_and_unused_ = 0
        /\ arena_mutex_ = HeldBy(t2)
        /\ Len(returned) > 0


(***************************************************************************)
(* C24: when a single thread is the only user of a ConcurrentArena, every  *)
(* request is routed to the Arena directly: no shard receives a region,    *)
(* every shard's allocated_and_unused_ stays 0 and the thread's tls_cpuid  *)
(* stays 0 for the whole run.                                              *)
(***************************************************************************)
C24_SingleThreadStaysDirect ==
    /\ \A i \in 1 .. Len(returned) : returned[i].path = "arena"
    /\ \A s \in ShardIds :
           /\ shards_[s].free_begin_ = NULL
           /\ shards_[s].allocated_and_unused_ = 0
    /\ tls_cpuid[Caller] = 0


(***************************************************************************)
(* C25: on the shard path, when the chosen shard cannot satisfy the        *)
(* request and the Arena is still in its inline buffer with at least bytes *)
(* free, the request is served from the inline buffer without allocating   *)
(* any block (IsInInlineBlock() is still true and MemoryAllocatedBytes()   *)
(* is unchanged afterwards) and the shard's free_begin_ and                *)
(* allocated_and_unused_ are left unchanged.                               *)
(***************************************************************************)
\* thread t holds reload_lock and the test of the inline bypass is true
BypassTaken(t) ==
    /\ thr[t].pc = "reload"
    /\ arena_allocated_and_unused_ >= thr[t].bytes
    /\ IsInInlineBlock(arena)

C25_InlineBypassAllocatesNoBlock ==
    [][ \A t \in Threads :
            (BypassTaken(t) /\ thr'[t] # thr[t]) =>
                /\ IsInInlineBlock(arena')
                /\ MemoryAllocatedBytes(arena') = MemoryAllocatedBytes(arena)
                /\ Inside(returned'[Len(returned')].p,
                          returned'[Len(returned')].n, InlineBlock)
                /\ shards_'[thr[t].s].free_begin_ = shards_[thr[t].s].free_begin_
                /\ shards_'[thr[t].s].allocated_and_unused_ =
                       shards_[thr[t].s].allocated_and_unused_ ]_vars


(***************************************************************************)
(* C26: on a shard refill where the Arena's free region exact satisfies    *)
(* shard_block_size_ / 2 <= exact < 2 * shard_block_size_, the shard       *)
(* receives exactly that region: the refill acquires no new block, the     *)
(* Arena's AllocatedAndUnused() is 0 afterwards and no bytes of the active *)
(* region are orphaned; otherwise the refill size is exactly               *)
(* shard_block_size_.                                                      *)
(***************************************************************************)
\* thread t holds reload_lock and the test of the inline bypass is false
RefillTaken(t) == thr[t].pc = "reload" /\ ~BypassTaken(t)

\* exact is within a factor of two of shard_block_size_
NearShardBlock(exact) ==
    exact >= shard_block_size_ \div 2 /\ exact < shard_block_size_ * 2

C26_RefillTakesWholeActiveRegion ==
    [][ \A t \in Threads :
            (RefillTaken(t) /\ thr'[t] # thr[t]) =>
                IF NearShardBlock(arena_allocated_and_unused_)
                THEN /\ thr'[t].avail = arena_allocated_and_unused_
                     /\ shards_'[thr[t].s].free_begin_ = arena.aligned_alloc_ptr_
                     /\ arena'.blocks_ = arena.blocks_
                     /\ arena'.huge_blocks_ = arena.huge_blocks_
                     /\ AllocatedAndUnused(arena') = 0
                ELSE thr'[t].avail = shard_block_size_ ]_vars


(***************************************************************************)
(* C27: for every request that reaches the shard path the refill size      *)
(* chosen is >= bytes, so avail - bytes never underflows and the carved    *)
(* region lies inside the shard's region; and the refill request never     *)
(* exceeds kBlockSize / 4, so a refill never creates an irregular block or *)
(* changes IrregularBlockNum().                                            *)
(***************************************************************************)
C27_RefillSizeBounds ==
    [][ \A t \in Threads :
            /\ (RefillTaken(t) /\ thr'[t] # thr[t]) =>
                   /\ thr'[t].avail >= thr[t].bytes
                   /\ thr'[t].avail <= arena.kBlockSize \div 4
                   /\ IrregularBlockNum(arena') = IrregularBlockNum(arena)
            /\ (thr[t].pc = "carve" /\ thr'[t] # thr[t]) =>
                   LET s == thr[t].s
                       r == returned'[Len(returned')]
                   IN  /\ thr[t].avail >= thr[t].bytes
                       /\ shards_'[s].allocated_and_unused_ =
                              thr[t].avail - thr[t].bytes
                       /\ shards_[s].free_begin_ <= r.p
                       /\ r.p + thr[t].bytes <=
                              shards_[s].free_begin_ + thr[t].avail ]_vars

\* an Arena that already owns an irregular block has refilled an empty shard
\* with a region that is not shard_block_size_ long, and the carve is next
C27_Witness ==
    \E t \in Threads :
        /\ thr[t].pc = "carve"
        /\ irregular_block_num_ > 0
        /\ thr[t].avail # shard_block_size_
        /\ thr[t].avail >= shard_block_size_ \div 2
        /\ shards_[thr[t].s].allocated_and_unused_ = 0
        /\ shards_[thr[t].s].free_begin_ # NULL


(***************************************************************************)
(* C28: per shard, between two refills allocated_and_unused_ only          *)
(* decreases, by exactly bytes per carve; it increases only through a      *)
(* refill, which is performed by a thread holding both that shard's lock   *)
(* and arena_mutex_ and which replaces free_begin_ with a fresh Arena      *)
(* region instead of extending the old one.                                *)
(***************************************************************************)
\* thread t is about to carve from shard s without having refilled it
CarvesOldRegion(t, s) ==
    /\ thr[t].pc = "carve" /\ thr[t].s = s
    /\ thr[t].avail = shards_[s].allocated_and_unused_

\* thread t is about to carve from shard s after having refilled it
CarvesNewRegion(t, s) ==
    /\ thr[t].pc = "carve" /\ thr[t].s = s
    /\ thr[t].avail > shards_[s].allocated_and_unused_

C28_ShardCountStateMachine ==
    [][ \A s \in ShardIds :
            LET old == shards_[s]
                new == shards_'[s]
            IN  /\ new.allocated_and_unused_ # old.allocated_and_unused_ =>
                       \E t \in Threads :
                           /\ old.mutex = HeldBy(t)
                           /\ \/ /\ CarvesOldRegion(t, s)
                                 /\ new.allocated_and_unused_ =
                                        old.allocated_and_unused_ - thr[t].bytes
                              \/ /\ CarvesNewRegion(t, s)
                                 /\ new.allocated_and_unused_ =
                                        thr[t].avail - thr[t].bytes
                /\ \A t \in Threads :
                       (RefillTaken(t) /\ thr[t].s = s /\ thr'[t] # thr[t]) =>
                           /\ old.mutex = HeldBy(t)
                           /\ arena_mutex_ = HeldBy(t)
                           /\ new.allocated_and_unused_ = old.allocated_and_unused_
                           /\ new.free_begin_ # old.free_begin_
                           /\ Disjoint([p |-> new.free_begin_, n |-> thr'[t].avail],
                                       FreeRange(s))
                           /\ \A i \in 1 .. Len(returned) :
                                  Disjoint([p |-> new.free_begin_,
                                            n |-> thr'[t].avail], returned[i])
                /\ (new.free_begin_ # old.free_begin_) =>
                       \E t \in Threads :
                           \/ RefillTaken(t) /\ thr[t].s = s /\ thr'[t] # thr[t]
                           \/ /\ thr[t].pc = "carve" /\ thr[t].s = s
                              /\ new.free_begin_ = old.free_begin_ + thr[t].bytes
          ]_vars

\* a shard that was refilled and has served a call is about to serve another
\* from the bytes it has left
C28_Witness ==
    \E t \in Threads :
        /\ CarvesOldRegion(t, thr[t].s)
        /\ shards_[thr[t].s].allocated_and_unused_ > 0
        /\ shards_[thr[t].s].allocated_and_unused_ < shard_block_size_
        /\ \E i \in 1 .. Len(returned) : returned[i].path = "shard"


(***************************************************************************)
(* C29: once a thread has re-picked a shard after a failed shard try_lock, *)
(* its tls_cpuid is non-zero and stays non-zero (its low bits select the   *)
(* re-picked shard), so every later small, non-forced request of that      *)
(* thread takes the shard path and never the direct shortcut.              *)
(***************************************************************************)
\* the step in which thread t comes back from Repick()
Repicks(t) == thr[t].pc = "shard_try" /\ thr'[t].pc = "shard_lock"

C29_RepickedThreadStaysOnShards ==
    [][ \A t \in Threads :
            /\ Repicks(t) =>
                   /\ tls_cpuid'[t] # 0
                   /\ thr'[t].s = tls_cpuid'[t] % NumShards
            /\ tls_cpuid[t] # 0 =>
                   /\ tls_cpuid'[t] # 0
                   /\ SmallUnforced(thr'[t]) =>
                          thr'[t].pc \notin {"arena_try", "arena_lock", "arena_call"}
                   /\ (thr[t].pc = "idle" /\ SmallUnforced(thr'[t])) =>
                          /\ thr'[t].pc = "shard_try"
                          /\ thr'[t].cpu % NumShards = tls_cpuid[t] % NumShards
          ]_vars

\* a thread whose re-picked shard is shard 0 begins a small request while
\* shard 0 is empty and arena_mutex_ is free, and goes to the shards
C29_Witness ==
    \E t \in Threads :
        /\ tls_cpuid[t] # 0
        /\ tls_cpuid[t] % NumShards = 0
        /\ SmallUnforced(thr[t])
        /\ thr[t].pc = "shard_try"
        /\ shards_[0].allocated_and_unused_ = 0
        /\ ~arena_mutex_.locked_
        /\ Len(returned) > 0


(***************************************************************************)
(* C30: a fallback request with bytes > kBlockSize / 4 changes nothing     *)
(* about the active region (aligned_alloc_ptr_, unaligned_alloc_ptr_ and   *)
(* alloc_bytes_remaining_ are unchanged), MemoryAllocatedBytes() grows by  *)
(* exactly bytes, and no later allocation is ever carved from that          *)
(* irregular block.                                                        *)
(***************************************************************************)
\* the blocks that were handed out whole: the irregular blocks
IrregularBlocks(a) ==
    {b \in {a.blocks_[i] : i \in 1 .. Len(a.blocks_)} :
        \E i \in 1 .. Len(returned) :
            returned[i].p = b.base /\ returned[i].n = b.size}

\* the last call was an oversized request that reached the fallback path
LastWasIrregular ==
    IsCall /\ last.bytes > arena.kBlockSize \div 4 /\ LastReachedFallback

CountCeiling(s) ==
    IF \E t \in Threads : CarvesNewRegion(t, s)
    THEN LET t == CHOOSE t \in Threads : CarvesNewRegion(t, s)
         IN  thr[t].avail - thr[t].bytes
    ELSE shards_[s].allocated_and_unused_

RECURSIVE SumCeilings(_)
SumCeilings(ids) ==
    IF ids = {} THEN 0
    ELSE LET i == CHOOSE i \in ids : TRUE
         IN  CountCeiling(i) + SumCeilings(ids \ {i})

C31_UsageSubtractionNeverUnderflows ==
    /\ ShardAllocatedAndUnused <= ApproximateMemoryUsage(arena)
    /\ SumCeilings(ShardIds) <= ApproximateMemoryUsage(arena)
    /\ \A t \in Threads : thr[t].pc = "usage" => arena_mutex_ = HeldBy(t)
    /\ \A i \in 1 .. Len(returned) :
           returned[i].path = "usage" => returned[i].n >= 0

\* one thread is inside ApproximateMemoryUsage with arena_mutex_ held while
\* another has just refilled its shard and has not yet stored the new count
C31_Witness ==
    \E t1, t2 \in Threads :
        /\ thr[t1].pc = "usage"
        /\ arena_mutex_ = HeldBy(t1)
        /\ CarvesNewRegion(t2, thr[t2].s)
        /\ arena.blocks_ # << >>


(***************************************************************************)
(* C32: at every point of the life of an Arena with a tracker attached,    *)
(* the sum of the byte counts passed to the tracker's Allocate() equals    *)
(* MemoryAllocatedBytes(): the inline buffer (kInlineSize) at construction *)
(* plus the size of every regular, irregular and successfully mapped       *)
(* huge-page block, each reported exactly once.                            *)
(***************************************************************************)
C32_TrackerToldEveryByte ==
    arena.tracker_.addr # NULL =>
        /\ arena.tracker_.Allocate_bytes = MemoryAllocatedBytes(arena)
        /\ arena.tracker_.Allocate_bytes =
               kInlineSize + SumSizes(arena.blocks_) + SumSizes(arena.huge_blocks_)

\* an Arena with a tracker owns an irregular block and a huge-page block, and
\* one of its mapping attempts has failed
C32_Witness ==
    /\ arena.tracker_.addr # NULL
    /\ arena.irregular_block_num > 0
    /\ arena.huge_blocks_ # << >>
    /\ arena.mmap_failed > 0


(***************************************************************************)
(* C33: locks in ConcurrentArena are always taken in the order shard lock  *)
(* then Arena lock: no thread ever tries to acquire a shard lock while     *)
(* holding arena_mutex_, no thread ever holds two shard locks at once, and *)
(* when an Allocate, AllocateAligned or ApproximateMemoryUsage call        *)
(* returns the calling thread holds no lock.                               *)
(***************************************************************************)
\* the shards whose mutex thread t holds
ShardLocksHeld(t) == {i \in ShardIds : shards_[i].mutex = HeldBy(t)}

\* thread t is at s->mutex.try_lock() or s->mutex.lock()
AcquiresShardLock(t) == thr[t].pc \in {"shard_try", "shard_lock"}

C33_ShardLockBeforeArenaLock ==
    \A t \in Threads :
        /\ AcquiresShardLock(t) =>
               arena_mutex_ # HeldBy(t) /\ ShardLocksHeld(t) = {}
        /\ Cardinality(ShardLocksHeld(t)) <= 1
        /\ thr[t].pc = "idle" =>
               arena_mutex_ # HeldBy(t) /\ ShardLocksHeld(t) = {}

\* a call has returned; one thread holds its shard's lock and, taken after
\* it, arena_mutex_, while another thread waits for a lock
C33_Witness ==
    \E t1, t2 \in Threads :
        /\ t1 # t2
        /\ thr[t1].pc = "reload"
        /\ ShardLocksHeld(t1) = {thr[t1].s}
        /\ arena_mutex_ = HeldBy(t1)
        /\ thr[t2].pc \in {"shard_lock", "usage_lock"}
        /\ returned # << >>

====
